---- MODULE Spec2Model ----
(***************************************************************************)
(* blender-dataset: the Generator's per-frame lifecycle and the            *)
(* PlaceMultipleObjectsHandler placement loop, with the script's edits of  *)
(* the handler list and the handlers that draw from the same stream:       *)
(* PlaceObject, SetLightHandler and SetMaterialHandler.                    *)
(*                                                                         *)
(* The scene.  Lengths are whole ticks, Cell of them to the cell.  The     *)
(* camera is orthographic, stands above the world origin and looks down:   *)
(* world x runs across the image, world y up the image, and the camera     *)
(* sees ViewWidth cells across at any resolution (sensor fit horizontal).  *)
(* The scene file has a resolution of one pixel per cell, ViewWidth by     *)
(* ViewHeight.  Every object is a cuboid mesh, its sides along the axes;   *)
(* object 2 carries one child.  A pose is a location (the x of the         *)
(* object's origin, in ticks; y and z are 0 at both ends of every range)   *)
(* and a rotation about the vertical axis through the origin (in degrees:  *)
(* whole quarter turns, and a rotation range is always one angle).         *)
(*                                                                         *)
(* The random stream is an unknown function of the seed.  A location draw  *)
(* is a float of [lo, hi).  What a draw does to the placement is decided   *)
(* by the pixel columns the corners round to and by the placed meshes the  *)
(* candidate's mesh crosses, so the floats of a range fall into finitely   *)
(* many classes, whose borders lie on whole ticks.  The model follows the  *)
(* draws of Draws, which at the scene file's resolution (the one every     *)
(* location range of more than one point is drawn at) hold a draw of       *)
(* every class of the poses of two objects taken together:                 *)
(* EveryPixelClassDrawn and EveryPairClassDrawn.  A float that puts a      *)
(* corner exactly on the border of two pixels, or two meshes exactly face  *)
(* to face, is not followed: the code's answer there hangs on float        *)
(* rounding, and the oracle overlap answers either way for such meshes.    *)
(* No candidate the model draws is one of them, which C21 and C23 check.   *)
(* The light's and the material's values are stored and never read again:  *)
(* two draws of each range are followed.                                   *)
(*                                                                         *)
(* Python's None is the empty tuple <<>>; optional integers are 1-tuples.  *)
(***************************************************************************)
EXTENDS Integers, Sequences, FiniteSets, TLC

VARIABLES
    script,   \* the script: its arguments, what the current call found, the
              \* statements still to come
    render,   \* bpy.context.scene.render: resolution_percentage, resolution
    gen,      \* the Generator: configuration, rng, position in generate_images
    handler,  \* PlaceMultipleObjectsHandler attributes set by __init__
    pm,       \* on_image_begin of the handler: its locals, _map2d, the objects
    place_object, \* PlaceObject attributes set by __init__
    set_light,    \* SetLightHandler: its arguments, the light's data
    set_material, \* SetMaterialHandler: its arguments, the object's
                  \* material slots, the inputs of the materials' nodes
    twin,     \* a second, independent run of the same script on the same
              \* scene: its generator's rng and its placement handler
    ds,       \* CreateDatasetFileHandler: _data, _output_path
    out,      \* the output directory: image files, label file and its backup
    calls,    \* hook invocations and render calls of the current run, in order
    err       \* the exception that ended the script, or "none"

vars == <<script, render, gen, handler, pm, place_object, set_light,
          set_material, twin, ds, out, calls, err>>

None == <<>>

----------------------------------------------------------------------------
(* Bounds of the model. *)

MaxCount == 2

MaxAttempts == 2

MaxObjects == 2

(* The script calls generate_images at most MaxCalls times. *)
MaxCalls == 2

----------------------------------------------------------------------------
(* Small helpers. *)

Range(s) == {s[k] : k \in DOMAIN s}

(* F of the value of e: e is computed once and F works on its value,
   however often F refers to it and wherever the formula is evaluated. *)
Apply(F(_), e) == CHOOSE v \in {F(x) : x \in {e}} : TRUE

Min(S) == Apply(LAMBDA T : CHOOSE a \in T : \A b \in T : a <= b, S)

Max(S) == Apply(LAMBDA T : CHOOSE a \in T : \A b \in T : b <= a, S)

Reverse(s) == [k \in 1..Len(s) |-> s[Len(s) + 1 - k]]

(* Every order rng.shuffle can leave a list of n indices in. *)
Shuffles(n) ==
    {s \in [1..n -> 1..n] : \A a, b \in 1..n : s[a] = s[b] => a = b}

(* np.round: round half to even, of the rational num / den with den > 0. *)
RoundHalfEven(num, den) ==
    LET q == num \div den
        r == num - q * den
    IN  IF 2 * r < den THEN q
        ELSE IF 2 * r > den THEN q + 1
        ELSE IF q % 2 = 0 THEN q ELSE q + 1

----------------------------------------------------------------------------
(* The scene's objects and the geometry of utils.py. *)

(* The ticks of one cell.  No corner of the scene is a whole number of
   half cells from the camera axis in x or in y, at any pose a point range
   gives it, so that no corner projects onto the border of two pixels. *)
Cell == 14

(* bpy.context.scene.render.resolution_x and resolution_y of the scene
   file, read by get_camera_intrinsics: one pixel per cell, and the camera
   sees ViewWidth cells across. *)
ViewWidth == 4

ViewHeight == 3

(* obj.data: the cuboid mesh of object i, by its extent along each local
   axis.  The meshes are one cell wide and two cells deep and stand at
   staggered depths and heights, so that two of them never lie face in
   face and the surfaces of two that share volume cross. *)
mesh(i) ==
    [x |-> <<0 - 6, 8>>,
     y |-> CASE i = 1 -> <<0 - 24, 4>>
             [] i = 2 -> <<0 - 10, 18>>
             [] OTHER -> <<0 - 18, 10>>,
     z |-> <<4 * (i - 1), 4 * (i - 1) + Cell>>]

(* o.bound_box: the eight corners <<x, y, z>> of the bounding box of a node
   of object i, in the node's local ticks; a child has its parent's box. *)
bound_box(i) ==
    {<<x, y, z>> : x \in Range(mesh(i).x), y \in Range(mesh(i).y),
                   z \in Range(mesh(i).z)}

(* obj.children: the local translation of each child of object i.  Object 2
   carries one child, one cell to the right of its origin. *)
children(i) == IF i = 2 THEN <<<<Cell, 0, 0>>>> ELSE <<>>

(* utils.flatten_object_hierarchy: the object, then its children; a node is
   named by its translation relative to the object's origin. *)
flatten_object_hierarchy(i) == <<<<0, 0, 0>>>> \o children(i)

(* The matrix of a rotation by rotation_euler, a whole number of quarter
   turns, about the vertical axis: <<cos, sin>>. *)
rotation_matrix(rotation_euler) ==
    CASE rotation_euler % 360 = 0 -> <<1, 0>>
      [] rotation_euler % 360 = 90 -> <<0, 1>>
      [] rotation_euler % 360 = 180 -> <<0 - 1, 0>>
      [] rotation_euler % 360 = 270 -> <<0, 0 - 1>>

(* node.matrix_world @ p for the node at translation d of an object with
   pose o: the world <<x, y, z>> of the local point p, turned by
   o.rotation_euler about the vertical axis through the object's origin
   and moved to o.location. *)
matrix_world(o, d, p) ==
    LET x == d[1] + p[1]
        y == d[2] + p[2]
        R == rotation_matrix(o.rotation_euler)
    IN  <<o.location + R[1] * x - R[2] * y, R[2] * x + R[1] * y,
          d[3] + p[3]>>

(* bpy_extras.object_utils.world_to_camera_view of the world point u: the
   view coordinates <<x, y>> over the common denominator den.  The view is
   1/2 on the camera axis, its width is ViewWidth cells and its height
   resolution_y / resolution_x of that. *)
world_to_camera_view(rnd, u) ==
    [x   |-> Cell * ViewWidth * rnd.res[2] + 2 * u[1] * rnd.res[2],
     y   |-> Cell * ViewWidth * rnd.res[2] + 2 * u[2] * rnd.res[1],
     den |-> 2 * Cell * ViewWidth * rnd.res[2]]

(* utils.world_to_image of the world point u, lines 93-102: the view
   coordinates, flipped vertically (x, 1 - y), times the render size
   (resolution * percentage / 100), minus 0.5; the image <<x, y>> as two
   rationals <<numerator, denominator>>. *)
world_to_image(rnd, u) ==
    LET im == world_to_camera_view(rnd, u)
        image_location == <<im.x, im.den - im.y>>
    IN  <<<<2 * image_location[1] * rnd.res[1] * rnd.pct - 100 * im.den,
            200 * im.den>>,
          <<2 * image_location[2] * rnd.res[2] * rnd.pct - 100 * im.den,
            200 * im.den>>>>

(* utils.project_bounding_box_on_image: every bounding-box corner of the
   object and its children, each through its own node's matrix_world. *)
project_bounding_box_on_image(rnd, o, i) ==
    {world_to_image(rnd, matrix_world(o, d, p)) :
        d \in Range(flatten_object_hierarchy(i)), p \in bound_box(i)}

(* Twice the signed area of the triangle a, b, c of image points. *)
cross(a, b, c) ==
    (b[1] - a[1]) * (c[2] - a[2]) - (b[2] - a[2]) * (c[1] - a[1])

(* The image point p lies in the triangle a, b, c, sides included (in the
   segment they span when they lie in line). *)
in_triangle(p, a, b, c) ==
    LET d == <<cross(a, b, p), cross(b, c, p), cross(c, a, p)>>
    IN  /\ ~(/\ \E k \in 1..3 : d[k] < 0
             /\ \E k \in 1..3 : d[k] > 0)
        /\ \A k \in 1..2 :
               /\ Min({a[k], b[k], c[k]}) <= p[k]
               /\ p[k] <= Max({a[k], b[k], c[k]})

(* The upright rectangle that bounds a set of image points: its extent
   <<lo, hi>> in x and in y. *)
bounding_rectangle(points) ==
    <<<<Min({q[1] : q \in points}), Max({q[1] : q \in points})>>,
      <<Min({q[2] : q \in points}), Max({q[2] : q \in points})>>>>

(* The corners of the rectangle b. *)
rectangle_corners(b) == {<<x, y>> : x \in Range(b[1]), y \in Range(b[2])}

(* The point p lies in the convex polygon spanned by points, border
   included: in their bounding rectangle when its corners are among the
   points, else in a triangle of three of them. *)
inside(points, p) ==
    LET b == bounding_rectangle(points)
    IN  IF rectangle_corners(b) \subseteq points
        THEN \A k \in 1..2 : b[k][1] <= p[k] /\ p[k] <= b[k][2]
        ELSE \E u, v, w \in points : in_triangle(p, u, v, w)

(* cv2.convexHull: the corners of the convex hull of a set of points, the
   points that do not lie in the polygon of the others. *)
convexHull(points) ==
    LET corners == rectangle_corners(bounding_rectangle(points))
    IN  IF corners \subseteq points THEN corners
        ELSE {p \in points : ~inside(points \ {p}, p)}

(* utils.compute_convex_hull_on_image: the hull of the rounded image
   points, as the set of its corners <<x, y>>. *)
compute_convex_hull_on_image(rnd, o, i) ==
    Apply(convexHull,
          {<<RoundHalfEven(q[1][1], q[1][2]),
             RoundHalfEven(q[2][1], q[2][2])>> :
               q \in project_bounding_box_on_image(rnd, o, i)})

(* np.zeros(size[::-1]): size[2] rows of size[1] columns. *)
zeros(size) == [r \in 1..size[2] |-> [c \in 1..size[1] |-> 0]]

(* Variant: a fill that writes the label after the one it is given. *)
fillPoly_next_label(img, hull, color) ==
    [r \in 1..Len(img) |->
        [c \in 1..Len(img[r]) |->
            IF inside(hull, <<c - 1, r - 1>>) THEN color + 1 ELSE img[r][c]]]

(* cv2.fillPoly(img, hull, color): the pixels of the hull's polygon,
   border included, clipped to the array; the image pixel <<x, y>> is
   index x + 1 of row y + 1. *)
fillPoly(img, hull, color) ==
    [r \in 1..Len(img) |->
        [c \in 1..Len(img[r]) |->
            IF inside(hull, <<c - 1, r - 1>>) THEN color ELSE img[r][c]]]

(* np.logical_and(a, b).any() *)
logical_and_any(a, b) ==
    \E r \in 1..Len(a) : \E c \in 1..Len(a[r]) : a[r][c] # 0 /\ b[r][c] # 0

(* make_bvhtree inside utils.is_mesh_intersecting: the object's own mesh
   (obj.data, no children) moved by its matrix_world, by the extent
   <<lo, hi>> of its faces along the world axes 1, 2, 3. *)
make_bvhtree(o, i) ==
    LET verts == {matrix_world(o, <<0, 0, 0>>, p) : p \in bound_box(i)}
    IN  [k \in 1..3 |-> <<Min({q[k] : q \in verts}),
                          Max({q[k] : q \in verts})>>]

(* A face of t1 across axis p and a face of t2 across axis q lie one
   through the other: each face's plane passes between the two faces of
   the other mesh that stand across it, and the meshes share length along
   the third axis. *)
faces_cross(t1, p, t2, q) ==
    LET r == 6 - p - q
    IN  /\ \E a \in Range(t1[p]) : t2[p][1] < a /\ a < t2[p][2]
        /\ \E b \in Range(t2[q]) : t1[q][1] < b /\ b < t1[q][2]
        /\ Max({t1[r][1], t2[r][1]}) < Min({t1[r][2], t2[r][2]})

(* The surfaces of the meshes t1 and t2 cross: a face of one lies through
   a face of the other. *)
crossing(t1, t2) ==
    \E p, q \in 1..3 : p # q /\ faces_cross(t1, p, t2, q)

(* The meshes t1 and t2 lie a gap apart along one of the axes. *)
apart(t1, t2) ==
    \E k \in 1..3 : t1[k][2] < t2[k][1] \/ t2[k][2] < t1[k][1]

(* The mesh t1 lies inside the mesh t2 and clear of its faces. *)
within(t1, t2) ==
    \A k \in 1..3 : t2[k][1] < t1[k][1] /\ t1[k][2] < t2[k][2]

(* The meshes t1 and t2 touch without crossing: faces of the two meet
   along an edge, at a corner or lie in one plane. *)
touching(t1, t2) ==
    /\ ~crossing(t1, t2) /\ ~apart(t1, t2)
    /\ ~within(t1, t2) /\ ~within(t2, t1)

(* What a build of Blender can answer where the answer of BVHTree.overlap
   hangs on float rounding. *)
BuildAnswers == BOOLEAN

(* BVHTree.overlap: the pairs of faces of the two meshes that intersect,
   here whether there is one.  Meshes whose surfaces cross have one;
   meshes a gap apart, and a mesh inside the other clear of its faces,
   have none.  For meshes that touch without crossing the answer hangs on
   the rounding of the build: it is touch, one of BuildAnswers. *)
overlap(t1, t2, touch) ==
    CASE crossing(t1, t2) -> TRUE
      [] touching(t1, t2) -> touch
      [] OTHER -> FALSE

(* Variant: an oracle that reports an object as overlapping itself. *)
is_mesh_intersecting_self(objs, objects1, objects2, touch) ==
    \E a \in Range(objects1) : \E b \in Range(objects2) :
        \/ a = b
        \/ overlap(make_bvhtree(objs[a], a), make_bvhtree(objs[b], b), touch)

(* Variant: an oracle that never reports an overlap. *)
is_mesh_intersecting_never(objs, objects1, objects2, touch) == FALSE

(* utils.is_mesh_intersecting(objects1, objects2) over the object states
   objs; objects1 and objects2 are sequences of object indices. *)
is_mesh_intersecting(objs, objects1, objects2, touch) ==
    \E a \in Range(objects1) : \E b \in Range(objects2) :
        /\ a # b
        /\ overlap(make_bvhtree(objs[a], a), make_bvhtree(objs[b], b), touch)

(* utils.get_camera_intrinsics: the image size, or the ValueError. *)
get_camera_intrinsics(rnd) ==
    IF rnd.pct # 100 THEN "ValueError" ELSE rnd.res

(* utils.set_render_image_size, called with the members of image_size as
   its arguments: image_size is (w, h) or
   (w, h, percentage); percentage defaults to 100. *)
set_render_image_size(image_size) ==
    [pct |-> IF Len(image_size) = 3 THEN image_size[3] ELSE 100,
     res |-> <<image_size[1], image_size[2]>>]

(* mathutils since Blender 2.80: Matrix * Vector is refused (the product is
   spelled @); every other line of the package needs the 2.80 API. *)
matrix_times_vector(o, p) == "TypeError"

(* PlaceMultipleObjectsHandler._is_in_bounds: "True", "False", or the
   TypeError of obj.matrix_world * Vector(p).  bounds is the pair of the
   box's lower and upper corner. *)
is_in_bounds(h, o, i) ==
    IF h.bounds = None THEN "True"
    ELSE LET points == {matrix_times_vector(o, p) :
                            d \in Range(flatten_object_hierarchy(i)),
                            p \in bound_box(i)}
         IN  IF "TypeError" \in points THEN "TypeError"
             ELSE IF \E q \in points : \E k \in 1..3 :
                         q[k] < h.bounds[1][k] \/ h.bounds[2][k] < q[k]
                  THEN "False" ELSE "True"

----------------------------------------------------------------------------
(* generator.rng, a numpy RandomState. *)

(* Variant: a generator that ignores its seed. *)
RandomState_entropy(seed) == [seed |-> None, used |-> <<>>]

(* np.random.RandomState(seed), generator.py line 43: the stream is a
   function of the seed and of the requests served so far; without a seed
   it is seeded from the entropy of the operating system. *)
RandomState(seed) == [seed |-> seed, used |-> <<>>]

(* The stream after it served the requests reqs. *)
served(rng, reqs) == [rng EXCEPT !.used = @ \o reqs]

(* What the stream rng can answer to a request whose answers lie in S,
   when the stream other answered v to the same request: v when the two
   are seeded alike and served the same requests before, else any answer
   of S. *)
replay(rng, other, v, S) ==
    IF rng.seed # None /\ rng = other THEN {v} ELSE S

(* The floats of a location range that are followed, in ticks: one of
   every class of poses that the placement can tell apart. *)
Draws == {0 - 26, 0 - 24, 0 - 18, 0 - 11, 0 - 5, 0 - 3}

(* rng.uniform(lo, hi) draws from the half-open interval [lo, hi): hi is
   never drawn, and lo = hi gives lo. *)
uniform(lo, hi) ==
    IF lo = hi THEN {lo} ELSE {v \in Draws : lo <= v /\ v < hi}

(* rng.uniform over the two ends of location_range, in ticks. *)
uniform_location(range) ==
    IF range = None THEN {None} ELSE uniform(range[1], range[2])

(* rng.uniform over the two ends of rotation_euler_range, in degrees; the
   two ends of a rotation range are the same angle. *)
uniform_rotation(range) ==
    IF range = None THEN {None} ELSE uniform(range[1], range[2])

(* rng.uniform over the two ends of a range whose draw is stored and
   never read again by the program: the low end and the middle of the
   range are followed. *)
uniform_stored(range) ==
    IF range = None THEN {None}
    ELSE {range[1], (range[1] + range[2]) \div 2}

(* rng.randint(low, high) draws an integer of [low, high); there is none
   when low >= high, and numpy raises a ValueError. *)
randint(low, high) == low..(high - 1)

(* The requests one draw of a pose makes of the stream. *)
pose_requests(location_range, rotation_euler_range) ==
    (IF location_range = None THEN <<>>
     ELSE <<<<"uniform", location_range>>>>)
    \o (IF rotation_euler_range = None THEN <<>>
        ELSE <<<<"uniform", rotation_euler_range>>>>)

----------------------------------------------------------------------------
(* PlaceMultipleObjectsHandler.on_image_begin, as steps on the record P of
   one call: the objects' state, _map2d, the locals of the method, the
   draws made from generator.rng and the exception that left it. *)

is_map2d_required(h) == h.make_map2d \/ ~h.intersection_2d

(* The loop of lines 188-190. *)
hide_all(objs) ==
    [i \in DOMAIN objs |->
        [objs[i] EXCEPT !.hide_viewport = TRUE, !.hide_render = TRUE]]

(* Variant: the shuffle is left out when there is nothing to reorder. *)
begin_image_skips_small(h, P, perm) ==
    [P EXCEPT !.map2d = IF is_map2d_required(h) THEN zeros(h.image_size)
                        ELSE @,
              !.successfully_placed = <<>>,
              !.objs = hide_all(@),
              !.object_indices = perm,
              !.pos = 1,
              !.attempt_i = 0,
              !.is_placed = FALSE,
              !.tries = [i \in DOMAIN P.objs |-> 0],
              !.rng_log = IF Len(perm) < 2 THEN <<>>
                          ELSE <<<<"shuffle", Len(perm)>>>>,
              !.entry = P.objs,
              !.pc = "object"]

(* Lines 182-193: the map, the placed list, hiding, the shuffle.  tries
   counts the attempts begun per object, rng_log lists the draws made from
   generator.rng and entry keeps the objects as the call found them. *)
begin_image(h, P, perm) ==
    [P EXCEPT !.map2d = IF is_map2d_required(h) THEN zeros(h.image_size)
                        ELSE @,
              !.successfully_placed = <<>>,
              !.objs = hide_all(@),
              !.object_indices = perm,
              !.pos = 1,
              !.attempt_i = 0,
              !.is_placed = FALSE,
              !.tries = [i \in DOMAIN P.objs |-> 0],
              !.rng_log = <<<<"shuffle", Len(perm)>>>>,
              !.entry = P.objs,
              !.pc = "object"]

(* Variant: the next object is tried without being shown. *)
next_object_not_shown(h, P) ==
    IF P.pos > Len(P.object_indices) THEN [P EXCEPT !.pc = "return"]
    ELSE [P EXCEPT !.is_placed = FALSE,
                   !.attempt_i = 0,
                   !.pc = IF h.random_attempt_count = 0 THEN "after"
                          ELSE "attempt"]

(* Lines 195-199: the next object of the permuted order is shown, or the
   loop is over and the method returns. *)
next_object(h, P) ==
    IF P.pos > Len(P.object_indices) THEN [P EXCEPT !.pc = "return"]
    ELSE LET i == P.object_indices[P.pos]
         IN  [P EXCEPT !.is_placed = FALSE,
                       !.objs[i].hide_viewport = FALSE,
                       !.objs[i].hide_render = FALSE,
                       !.attempt_i = 0,
                       !.pc = IF h.random_attempt_count = 0 THEN "after"
                              ELSE "attempt"]

(* Variant: an attempt loop that runs once more than its budget. *)
continue_one_more(h, P) ==
    [P EXCEPT !.attempt_i = @ + 1,
              !.pc = IF P.attempt_i + 1 > h.random_attempt_count
                     THEN "after" ELSE "attempt"]

(* Line 211, 223, 226, 232: continue. *)
continue(h, P) ==
    [P EXCEPT !.attempt_i = @ + 1,
              !.pc = IF P.attempt_i + 1 >= h.random_attempt_count
                     THEN "after" ELSE "attempt"]

(* Lines 215-220: the corners of the hull that lie outside the image size
   the handler holds. *)
corners_outside_image(h, convex_hull) ==
    Cardinality({p \in convex_hull :
                    \/ p[1] < 0
                    \/ p[2] < 0
                    \/ p[1] >= h.image_size[1]
                    \/ p[2] >= h.image_size[2]})

(* Lines 228-232: the candidate's silhouette meets a marked pixel. *)
intersects_2d(P, convex_hull, i) ==
    logical_and_any(fillPoly(zeros(<<Len(P.map2d[1]), Len(P.map2d)>>),
                             convex_hull, (i - 1) + 1), P.map2d)

(* Variant: the map is filled but the object is not appended to the
   placed list. *)
accept_unlisted(h, P, convex_hull, i) ==
    [P EXCEPT !.is_placed = TRUE,
              !.map2d = IF is_map2d_required(h)
                        THEN fillPoly(@, convex_hull, (i - 1) + 1) ELSE @,
              !.pc = "after"]

(* Variant: the fill is labelled with the object's place in the permuted
   order. *)
accept_position_label(h, P, convex_hull, i) ==
    [P EXCEPT !.successfully_placed = Append(@, i),
              !.is_placed = TRUE,
              !.map2d = IF is_map2d_required(h)
                        THEN fillPoly(@, convex_hull, P.pos) ELSE @,
              !.pc = "after"]

(* Lines 234-241: object i (obj_i = i - 1) is placed; color = obj_i + 1. *)
accept(h, P, convex_hull, i) ==
    [P EXCEPT !.successfully_placed = Append(@, i),
              !.is_placed = TRUE,
              !.map2d = IF is_map2d_required(h)
                        THEN fillPoly(@, convex_hull, (i - 1) + 1) ELSE @,
              !.pc = "after"]

(* Variant: the candidate is not tested against the placed meshes. *)
check_candidate_no_3d(h, rnd, P, i, touch) ==
    LET inb == is_in_bounds(h, P.objs[i], i)
        checks(convex_hull) ==
            IF inb = "TypeError"
            THEN [P EXCEPT !.exc = "TypeError", !.pc = "raised"]
            ELSE IF inb = "False" THEN continue(h, P)
            ELSE IF h.max_corners_outside_image # None
                    /\ corners_outside_image(h, convex_hull)
                           > h.max_corners_outside_image[1]
                 THEN continue(h, P)
            ELSE IF ~h.intersection_2d /\ intersects_2d(P, convex_hull, i)
                 THEN continue(h, P)
            ELSE accept(h, P, convex_hull, i)
    IN  Apply(checks, compute_convex_hull_on_image(rnd, P.objs[i], i))

(* Variant: a candidate that uses up the whole corner budget is rejected. *)
check_candidate_budget_reached(h, rnd, P, i, touch) ==
    LET inb == is_in_bounds(h, P.objs[i], i)
        checks(convex_hull) ==
            IF inb = "TypeError"
            THEN [P EXCEPT !.exc = "TypeError", !.pc = "raised"]
            ELSE IF inb = "False" THEN continue(h, P)
            ELSE IF h.max_corners_outside_image # None
                    /\ corners_outside_image(h, convex_hull)
                           >= h.max_corners_outside_image[1]
                 THEN continue(h, P)
            ELSE IF ~h.intersection_3d
                    /\ is_mesh_intersecting(P.objs, <<i>>,
                                            P.successfully_placed, touch)
                 THEN continue(h, P)
            ELSE IF ~h.intersection_2d /\ intersects_2d(P, convex_hull, i)
                 THEN continue(h, P)
            ELSE accept(h, P, convex_hull, i)
    IN  Apply(checks, compute_convex_hull_on_image(rnd, P.objs[i], i))

(* Lines 208-241 after the draws: the checks on the candidate pose. *)
check_candidate(h, rnd, P, i, touch) ==
    LET inb == is_in_bounds(h, P.objs[i], i)
        checks(convex_hull) ==
            IF inb = "TypeError"
            THEN [P EXCEPT !.exc = "TypeError", !.pc = "raised"]
            ELSE IF inb = "False" THEN continue(h, P)
            ELSE IF h.max_corners_outside_image # None
                    /\ corners_outside_image(h, convex_hull)
                           > h.max_corners_outside_image[1]
                 THEN continue(h, P)
            ELSE IF ~h.intersection_3d
                    /\ is_mesh_intersecting(P.objs, <<i>>,
                                            P.successfully_placed, touch)
                 THEN continue(h, P)
            ELSE IF ~h.intersection_2d /\ intersects_2d(P, convex_hull, i)
                 THEN continue(h, P)
            ELSE accept(h, P, convex_hull, i)
    IN  Apply(checks, compute_convex_hull_on_image(rnd, P.objs[i], i))

(* Lines 201-241: one iteration of the attempt loop with the draws l and r.
   np.array(None) is not None, so a missing location_range is unpacked and
   raises the TypeError of iterating a 0-d array. *)
attempt(h, rnd, P, l, r, touch) ==
    LET i  == P.object_indices[P.pos]
        P1 == [P EXCEPT !.tries[i] = @ + 1]
    IN  IF h.location_range = None
        THEN [P1 EXCEPT !.exc = "TypeError", !.pc = "raised"]
        ELSE LET P2 == [P1 EXCEPT !.objs[i].location = l,
                                  !.rng_log = Append(@, <<"location", i>>)]
                 P3 == IF h.rotation_euler_range = None THEN P2
                       ELSE [P2 EXCEPT !.objs[i].rotation_euler = r,
                                       !.rng_log = Append(@, <<"rotation", i>>)]
             IN  check_candidate(h, rnd, P3, i, touch)

(* Variant: a failed object is not hidden again. *)
after_attempts_shown(h, P) ==
    IF P.is_placed \/ ~h.break_on_first_failed
    THEN [P EXCEPT !.pos = @ + 1, !.pc = "object"]
    ELSE [P EXCEPT !.pc = "return"]

(* Variant: break_on_first_failed is ignored. *)
after_attempts_no_break(h, P) ==
    LET i == P.object_indices[P.pos]
    IN  IF P.is_placed THEN [P EXCEPT !.pos = @ + 1, !.pc = "object"]
        ELSE [P EXCEPT !.objs[i].hide_viewport = TRUE,
                       !.objs[i].hide_render = TRUE,
                       !.pos = @ + 1, !.pc = "object"]

(* Lines 243-247. *)
after_attempts(h, P) ==
    LET i == P.object_indices[P.pos]
    IN  IF P.is_placed THEN [P EXCEPT !.pos = @ + 1, !.pc = "object"]
        ELSE LET Q == [P EXCEPT !.objs[i].hide_viewport = TRUE,
                                !.objs[i].hide_render = TRUE]
             IN  IF h.break_on_first_failed THEN [Q EXCEPT !.pc = "return"]
                 ELSE [Q EXCEPT !.pos = @ + 1, !.pc = "object"]

----------------------------------------------------------------------------
(* Image paths of generator.py. *)

(* The decimal digits as the characters of a str. *)
digit_chars == <<"0", "1", "2", "3", "4", "5", "6", "7", "8", "9">>

(* str(n) for n >= 0: its decimal digits, most significant first. *)
RECURSIVE str(_)
str(n) ==
    IF n < 10 THEN <<digit_chars[n + 1]>>
    ELSE Append(str(n \div 10), digit_chars[(n % 10) + 1])

(* '{:0<width>d}'.format(n): str(n) filled with zeros on the left up to
   width characters, and never cut. *)
RECURSIVE format_d(_, _)
format_d(n, width) ==
    IF Len(str(n)) >= width THEN str(n)
    ELSE <<"0">> \o format_d(n, width - 1)

(* Variant: the file is named by its index inside its directory. *)
image_path_in_directory(i, image_extension) ==
    format_d(i \div 1000, 4) \o <<"/">> \o format_d(i % 1000, 7)
    \o <<".", image_extension>>

(* Line 114: '{:04d}/{:07d}.{}'.format(i // 1000, i, image_extension). *)
image_path(i, image_extension) ==
    format_d(i \div 1000, 4) \o <<"/">> \o format_d(i, 7)
    \o <<".", image_extension>>

(* os.path.splitext(os.path.basename(x))[0]: what stands between the last
   slash and the dot. *)
basename_stem(x) ==
    LET slash == Max({0} \cup {k \in 1..Len(x) : x[k] = "/"})
        dot   == Max({k \in 1..Len(x) : x[k] = "."})
    IN  SubSeq(x, slash + 1, dot - 1)

(* int(s) of a string of decimal digits. *)
RECURSIVE int(_)
int(x) ==
    IF x = <<>> THEN 0
    ELSE 10 * int(SubSeq(x, 1, Len(x) - 1))
         + (CHOOSE d \in 0..9 : digit_chars[d + 1] = x[Len(x)])

----------------------------------------------------------------------------
(* Configurations the script can set up. *)

(* The handler objects of the script: a PlaceMultipleObjectsHandler, a
   PlaceObject, a SetLightHandler, a SetMaterialHandler, a
   CreateDatasetFileHandler and a handler that keeps the no-op hooks of
   the base class. *)
HandlerKinds ==
    {"place", "place_object", "light", "material", "dataset", "base"}

(* The lists of handlers one add_handlers call is given: up to three
   handler objects, each at most once. *)
HandlerLists ==
    {hs \in UNION {[1..m -> HandlerKinds] : m \in 0..3} :
        \A a, b \in DOMAIN hs : hs[a] = hs[b] => a = b}

(* Generator(image_size=...): None, (w, h) or (w, h, percentage). *)
ImageSizes ==
    {None, <<3, 2>>, <<2 * ViewWidth, 2 * ViewHeight>>,
     <<ViewWidth, ViewHeight, 50>>}

(* A location range two cells wide, left of the camera axis: a draw can
   leave corners of an object left of the image, and two draws can leave
   two meshes apart or one through the other. *)
WideRange == <<0 - 2 * Cell, 0>>

(* A location range narrower than a mesh is wide: the meshes of any two
   objects drawn from it cross. *)
NarrowRange == <<0 - 18, 0 - 10>>

(* A location range of one point, right of the camera axis: the child of
   object 2 reaches over the right border of the scene file's image. *)
PointRange == <<16, 16>>

(* location_range, in ticks. *)
LocationRanges == {None, WideRange, NarrowRange, PointRange}

(* rotation_euler_range, in degrees: none, or half a turn about the
   vertical axis at both ends. *)
RotationRanges == {None, <<180, 180>>}

(* A bounds box no pose reaches. *)
FarBox == <<<<100 * Cell, 100 * Cell, 100 * Cell>>,
            <<150 * Cell, 150 * Cell, 150 * Cell>>>>

(* bounds, the lower and the upper corner of the box in ticks: none, a
   box around everything the camera sees, a box no pose reaches. *)
BoundsBoxes ==
    {None,
     <<<<0 - 10 * Cell, 0 - 10 * Cell, 0 - 10 * Cell>>,
       <<10 * Cell, 10 * Cell, 10 * Cell>>>>,
     FarBox}

CornerBudgets == {None, <<0>>, <<2>>}

(* The keyword arguments of PlaceMultipleObjectsHandler a script may pass;
   image_size is set by __init__.  With a bounds box, or without a location
   range, the first attempt raises before any other argument is read; the
   other constraints are then left at their defaults.  make_map2d is read
   only in is_map2d_required, where intersection_2d = False decides alone;
   it is varied with intersection_2d = True.  The narrow range is explored
   without a rotation range and a corner budget.  With the wide range, a
   rotation range is explored with one attempt per object and make_map2d
   and break_on_first_failed at their defaults, several attempts for
   several objects without a corner budget, and more than two objects
   with one attempt per object, one of the 3D and the 2D test, and
   nothing else. *)
HandlerArgs ==
    {h \in [objects : {0, 1, 2, MaxObjects},
            location_range : LocationRanges,
            rotation_euler_range : RotationRanges,
            bounds : BoundsBoxes,
            intersection_3d : BOOLEAN,
            intersection_2d : BOOLEAN,
            max_corners_outside_image : CornerBudgets,
            make_map2d : BOOLEAN,
            random_attempt_count : {1, MaxAttempts},
            break_on_first_failed : BOOLEAN,
            image_size : {None}] :
        /\ (h.bounds # None \/ h.location_range = None) =>
               /\ h.intersection_3d /\ h.intersection_2d
               /\ h.max_corners_outside_image = None
               /\ ~h.make_map2d /\ ~h.break_on_first_failed
        /\ h.make_map2d => h.intersection_2d
        /\ h.location_range = NarrowRange =>
               /\ h.rotation_euler_range = None
               /\ h.max_corners_outside_image = None
        /\ (h.location_range = WideRange /\ h.rotation_euler_range # None) =>
               /\ h.random_attempt_count = 1
               /\ ~h.make_map2d /\ ~h.break_on_first_failed
        /\ (/\ h.location_range = WideRange /\ h.objects > 1
            /\ h.random_attempt_count > 1) =>
               h.max_corners_outside_image = None
        /\ (h.location_range = WideRange /\ h.objects > 2) =>
               /\ h.random_attempt_count = 1
               /\ h.rotation_euler_range = None
               /\ h.max_corners_outside_image = None
               /\ h.intersection_3d # h.intersection_2d
               /\ ~h.make_map2d /\ ~h.break_on_first_failed}

(* The handler used where the pipeline, not the placement, is varied. *)
PlainHandler ==
    [objects |-> 2,
     location_range |-> PointRange,
     rotation_euler_range |-> None,
     bounds |-> None,
     intersection_3d |-> TRUE,
     intersection_2d |-> FALSE,
     max_corners_outside_image |-> None,
     make_map2d |-> FALSE,
     random_attempt_count |-> 1,
     break_on_first_failed |-> FALSE,
     image_size |-> None]

(* Generator(rng_seed=...): the default None, or a seed. *)
Seeds == {None, <<1>>}

(* The handlers whose runs are followed without a seed, where two runs
   draw apart and go each at its own pace: one object that is drawn for
   until it meets the corner budget, or two objects with one attempt each
   under the 3D test. *)
Unseeded(h) ==
    /\ h.rotation_euler_range = None
    /\ h.bounds = None
    /\ h.intersection_2d
    /\ ~h.make_map2d /\ ~h.break_on_first_failed
    /\ \/ /\ h.objects = 1
          /\ h.location_range = WideRange
          /\ h.intersection_3d
          /\ h.max_corners_outside_image = <<2>>
          /\ h.random_attempt_count = MaxAttempts
       \/ /\ h.objects = 2
          /\ h.location_range = NarrowRange
          /\ ~h.intersection_3d
          /\ h.max_corners_outside_image = None
          /\ h.random_attempt_count = 1

(* The objects as the scene file holds them before the script runs. *)
prior_objects(n, hidden, location, rotation) ==
    [i \in 1..n |-> [location |-> location, rotation_euler |-> rotation,
                     hide_viewport |-> hidden, hide_render |-> hidden]]

(* The handler outside on_image_begin: the objects and _map2d, and no
   locals. *)
no_call(objs, map2d) ==
    [objs |-> objs, map2d |-> map2d, successfully_placed |-> <<>>,
     object_indices |-> <<>>, pos |-> 0, attempt_i |-> 0,
     is_placed |-> FALSE, tries |-> [i \in DOMAIN objs |-> 0],
     rng_log |-> <<>>, entry |-> objs, exc |-> "none", pc |-> "idle"]

(* on_image_begin returns: its locals are gone. *)
return(P) == no_call(P.objs, P.map2d)

(* Generator.__init__, lines 35-44, before any handler is constructed;
   isdir is os.path.isdir(output_dir) at that moment. *)
new_generator(incremental, isdir, image_size, rng_seed, handlers) ==
    [incremental |-> incremental /\ isdir, image_size |-> image_size,
     image_extension |-> "png", rng |-> RandomState(rng_seed),
     handlers |-> handlers, current_image_path |-> None,
     pc |-> "script", k |-> 0, i |-> 0, stop |-> 0]

(* An output directory that exists and is empty. *)
empty_directory == [isdir |-> TRUE, images |-> {}, dataset |-> None,
                    bak |-> None]

(* The label file an earlier run of the script left for the frames
   0 .. n - 1: one record per frame, both objects of the scene shown. *)
earlier_dataset(n) ==
    <<[k \in 1..n |->
          [image |-> image_path(k - 1, "png"),
           objects |-> <<[category |-> 0], [category |-> 1]>>]]>>

(* The statements of a script that follow the construction of its
   Generator and handlers. *)
generate_images_call(count) == <<"generate_images", count>>

add_handlers_call(hs) == <<"add_handlers", hs>>

remove_handler_call(h) == <<"remove_handler", h>>

(* The scripts that call generate_images up to MaxCalls times. *)
ScriptCalls ==
    UNION {[1..m -> {generate_images_call(n) : n \in 0..MaxCount}] :
              m \in 1..MaxCalls}

(* One change of the handler list: a handler added, two handlers added in
   one call, a handler removed. *)
ListEdits ==
    {add_handlers_call(<<h>>) : h \in HandlerKinds}
    \cup {add_handlers_call(<<"dataset", "place_object">>)}
    \cup {remove_handler_call(h) : h \in HandlerKinds}

(* The scripts that render one frame per generate_images call, up to
   MaxCalls calls, and change the handler list once: before the first
   call, between two calls or after the last one. *)
EditedScripts ==
    UNION {{[k \in 1..(m + 1) |->
                IF k = at THEN e ELSE generate_images_call(1)] :
               at \in 1..(m + 1), e \in ListEdits} : m \in 1..MaxCalls}

(* What the output directory may hold before the script runs: no
   directory, or image files left by earlier runs, with or without their
   label file. *)
OutputDirs ==
    {[isdir |-> FALSE, images |-> {}, dataset |-> None, bak |-> None]}
    \cup {[empty_directory EXCEPT
              !.images = {image_path(0, "png"), image_path(1, "png")},
              !.dataset = earlier_dataset(2)]}
    \cup {[empty_directory EXCEPT !.images = fs] :
            fs \in {{},
                    {image_path(0, "png"), image_path(1, "png")},
                    {image_path(0, "png"), image_path(2, "png")},
                    {image_path(999, "png")},
                    {image_path(1233, "png")},
                    {image_path(9999999, "png")},
                    {<<"7", ".", "png">>}}}

(* The PlaceObject handler used where its arguments are not varied: it
   puts object 1 two cells to the right of the camera axis. *)
PlainPlaceObject ==
    [object |-> 1, location_range |-> <<2 * Cell + 2, 2 * Cell + 2>>,
     rotation_euler_range |-> None]

(* The arguments of PlaceObject a script may pass: an object of the scene
   and the two ranges, each of which may be left out. *)
PlaceObjectArgs ==
    [object : 1..MaxObjects, location_range : LocationRanges,
     rotation_euler_range : RotationRanges]

(* The SetLightHandler used where its arguments are not varied, with the
   light as the scene file has it: the power is drawn from a range of one
   value, the colour is left alone. The power is in tenths of a watt, the
   colour is one of its components. *)
PlainSetLight ==
    [power_range |-> <<10, 10>>, color_range |-> None,
     energy |-> 10, color |-> 10]

(* The arguments of SetLightHandler a script may pass: the two ranges,
   each of which may be left out. *)
SetLightArgs ==
    {[PlainSetLight EXCEPT !.power_range = p, !.color_range = c] :
        p \in {None, <<5, 20>>}, c \in {None, <<2, 8>>}}

(* bpy.data.materials of the scene file: the nodes of each material's
   node tree, by the material's name. *)
scene_materials ==
    [plain    |-> {"Principled BSDF"},
     textured |-> {"Principled BSDF", "Mapping"},
     bare     |-> {}]

(* The node inputs the handler writes to, as the scene file has them:
   inputs[0] of 'Principled BSDF', inputs[1], [2] and [3] of 'Mapping'. *)
scene_inputs ==
    [m \in DOMAIN scene_materials |->
        [color |-> 0, location |-> 0, rotation |-> 0, scale |-> 0]]

(* The SetMaterialHandler used where its arguments are not varied, on
   object 1, which has no material in the scene file: one material to
   pick, its colour drawn from a range of one value. *)
PlainSetMaterial ==
    [object |-> 1, materials |-> <<"plain">>, color_range |-> <<3, 3>>,
     texture_location_range |-> None, texture_rotation_range |-> None,
     texture_scale_range |-> None,
     object_materials |-> <<>>, inputs |-> scene_inputs]

(* The arguments of SetMaterialHandler a script may pass: the names of
   materials of the scene, none by default, the colour range and the
   three texture ranges, each of which may be left out. *)
SetMaterialArgs ==
    {[PlainSetMaterial EXCEPT
         !.materials = ms, !.color_range = c,
         !.texture_location_range = t[1], !.texture_rotation_range = t[2],
         !.texture_scale_range = t[3]] :
        ms \in {<<>>, <<"textured">>, <<"plain", "textured">>,
                <<"bare", "plain">>},
        c \in {None, <<2, 8>>},
        t \in {<<None, None, None>>, <<None, <<90, 90>>, None>>,
               <<<<4, 4>>, <<90, 90>>, <<1, 1>>>>}}

(* What the script is about to do, the seed it gave its Generator and
   what its current call found. *)
script_state(todo, incremental, o, rng_seed) ==
    [count |-> 0, incremental |-> incremental, isdir |-> o.isdir,
     rng_seed |-> rng_seed,
     found |-> o.images, records |-> 0, todo |-> todo]

(* The scene file's render settings. *)
scene_render == [pct |-> 100, res |-> <<ViewWidth, ViewHeight>>]

(* Two runs of the script start on the same scene file, opened with
   every object shown in one run and hidden in the other. *)
InitCommon ==
    /\ ds = [data |-> <<>>, output_path |-> None]
    /\ calls = <<>>
    /\ err = "none"
    /\ pm = no_call(prior_objects(handler.objects, FALSE, 0, 0), None)
    /\ twin = [pm  |-> no_call(prior_objects(handler.objects, TRUE, 0, 0),
                               None),
               rng |-> RandomState(script.rng_seed)]

(* The placement is varied under the simplest pipeline. *)
InitPlacement ==
    /\ handler \in HandlerArgs
    /\ script \in {script_state(<<generate_images_call(1)>>, FALSE,
                                 empty_directory, seed) :
                      seed \in {s \in Seeds :
                                   s = None => Unseeded(handler)}}
    /\ out = empty_directory
    /\ place_object = PlainPlaceObject
    /\ set_light = PlainSetLight
    /\ set_material = PlainSetMaterial
    /\ render = scene_render
    /\ gen = new_generator(FALSE, TRUE, None, script.rng_seed, <<"place">>)
    /\ InitCommon

(* The pipeline is varied around one plain placement handler. *)
InitPipeline ==
    /\ script \in {script_state(<<generate_images_call(n)>>, FALSE,
                                 empty_directory, <<1>>) : n \in 0..MaxCount}
    /\ out = empty_directory
    /\ handler = PlainHandler
    /\ place_object = PlainPlaceObject
    /\ set_light = PlainSetLight
    /\ set_material = PlainSetMaterial
    /\ render \in [pct : {100, 50}, res : {<<ViewWidth, ViewHeight>>}]
    /\ gen \in {new_generator(FALSE, TRUE, size, <<1>>, hs) :
                    size \in ImageSizes,
                    hs \in {l \in HandlerLists :
                               /\ Range(l) \cap {"light", "material"} = {}
                               /\ "place_object" \in Range(l)
                                      => Len(l) <= 2}}
    /\ InitCommon

(* The output directory, the incremental argument and the number of
   generate_images calls are varied around the label handler. *)
InitOutput ==
    /\ out \in OutputDirs
    /\ script \in {script_state(todo, incremental, out, <<1>>) :
                       todo \in ScriptCalls, incremental \in BOOLEAN}
    /\ handler = PlainHandler
    /\ place_object = PlainPlaceObject
    /\ set_light = PlainSetLight
    /\ set_material = PlainSetMaterial
    /\ render = scene_render
    /\ gen = new_generator(script.incremental, out.isdir, None, <<1>>,
                           <<"dataset">>)
    /\ InitCommon

(* The arguments of PlaceObject are varied, alone and next to a placement
   handler with and without the 3D test. *)
InitPlaceObject ==
    /\ script = script_state(<<generate_images_call(1)>>, FALSE,
                             empty_directory, <<1>>)
    /\ out = empty_directory
    /\ handler \in {PlainHandler,
                     [PlainHandler EXCEPT !.intersection_3d = FALSE]}
    /\ place_object \in PlaceObjectArgs
    /\ set_light = PlainSetLight
    /\ set_material = PlainSetMaterial
    /\ render = scene_render
    /\ gen \in {new_generator(FALSE, TRUE, None, <<1>>, hs) :
                    hs \in {<<"place_object">>, <<"place_object", "place">>,
                            <<"place", "place_object">>,
                            <<"place_object", "dataset">>}}
    /\ InitCommon

(* The handler list is changed between the calls of the script. *)
InitEdits ==
    /\ script \in {script_state(todo, FALSE, empty_directory, <<1>>) :
                       todo \in EditedScripts}
    /\ out = empty_directory
    /\ handler = PlainHandler
    /\ place_object = PlainPlaceObject
    /\ set_light = PlainSetLight
    /\ set_material = PlainSetMaterial
    /\ render = scene_render
    /\ gen \in {new_generator(FALSE, TRUE, None, <<1>>, hs) :
                    hs \in {<<>>, <<"place", "dataset">>,
                            <<"base", "place_object">>}}
               \cup {new_generator(FALSE, TRUE,
                                   <<ViewWidth, ViewHeight, 50>>, <<1>>,
                                   <<"base", "place_object">>)}
    /\ InitCommon

(* The arguments of SetLightHandler and SetMaterialHandler are varied,
   each before a placement handler that draws its location from a range
   of one value; before one that draws from the wide range, and where the
   two follow a placement handler or precede the label handler, the
   light has its power range and the material handler two materials to
   pick from, with or without a colour range. *)
InitShading ==
    /\ script = script_state(<<generate_images_call(1)>>, FALSE,
                             empty_directory, <<1>>)
    /\ out = empty_directory
    /\ handler \in {PlainHandler,
                     [PlainHandler EXCEPT !.location_range = WideRange]}
    /\ place_object = PlainPlaceObject
    /\ render = scene_render
    /\ gen \in {new_generator(FALSE, TRUE, None, <<1>>, hs) :
                    hs \in {<<"light", "place">>, <<"material", "place">>,
                            <<"place", "material", "light">>,
                            <<"light", "material", "dataset">>}}
    /\ Len(gen.handlers) = 3 => handler = PlainHandler
    /\ LET both == {"light", "material"} \subseteq Range(gen.handlers)
           wide == handler.location_range = WideRange
       IN  /\ set_light \in
                  IF "light" \notin Range(gen.handlers)
                  THEN {PlainSetLight}
                  ELSE IF both \/ wide
                  THEN {[PlainSetLight EXCEPT !.power_range = <<5, 20>>]}
                  ELSE SetLightArgs
           /\ set_material \in
                  IF "material" \notin Range(gen.handlers)
                  THEN {PlainSetMaterial}
                  ELSE IF both \/ wide
                  THEN {[PlainSetMaterial EXCEPT
                            !.materials = <<"plain", "textured">>,
                            !.color_range = c] :
                           c \in IF both THEN {<<3, 3>>}
                                 ELSE {None, <<3, 3>>}}
                  ELSE SetMaterialArgs
    /\ InitCommon

Init ==
    \/ InitPlacement
    \/ InitPipeline
    \/ InitOutput
    \/ InitPlaceObject
    \/ InitEdits
    \/ InitShading

----------------------------------------------------------------------------
(* The script and Generator.generate_images. *)

NumHandlers == Len(gen.handlers)

(* Variant: _run_handlers without its reverse argument. *)
run_handlers_forward(n, reverse) == [k \in 1..n |-> k]

(* Generator._run_handlers: the positions of the handler list in the order
   the method visits them. *)
run_handlers(n, reverse) ==
    IF reverse THEN Reverse([k \in 1..n |-> k]) ELSE [k \in 1..n |-> k]

(* The handler the current pass over the list has reached. *)
CurrentHandler(reverse) == run_handlers(NumHandlers, reverse)[gen.k]

(* The script constructs a PlaceMultipleObjectsHandler at the latest when
   it first adds it. *)
is_constructed_now(h, hs) == "place" \in Range(hs) /\ h.image_size = None

(* PlaceMultipleObjectsHandler.__init__ asks for the camera intrinsics
   (line 133). *)
construct(h, size) == [h EXCEPT !.image_size = size]

(* Generator.add_handlers: self._handlers += handlers. *)
add_handlers(handlers, hs) == handlers \o hs

(* Generator.remove_handler: list.remove of the first occurrence, when the
   handler is in the list. *)
remove_handler(handlers, h) ==
    IF h \in Range(handlers)
    THEN LET k == Min({j \in DOMAIN handlers : handlers[j] = h})
         IN  SubSeq(handlers, 1, k - 1)
             \o SubSeq(handlers, k + 1, Len(handlers))
    ELSE handlers

(* The script constructs its handlers and adds them to the new generator
   with its first add_handlers call. *)
Construct ==
    /\ gen.pc = "script"
    /\ LET size == get_camera_intrinsics(render)
           new  == is_constructed_now(handler, gen.handlers)
       IN  IF new /\ size = "ValueError"
           THEN /\ err' = "ValueError"
                /\ gen' = [gen EXCEPT !.pc = "aborted"]
                /\ UNCHANGED handler
           ELSE /\ handler' = IF new THEN construct(handler, size)
                              ELSE handler
                /\ gen' = [gen EXCEPT !.pc = "idle",
                                      !.handlers = add_handlers(<<>>, @)]
                /\ UNCHANGED err
    /\ UNCHANGED <<script, render, pm, twin, ds, out, calls, place_object,
                   set_light, set_material>>

(* The script is between two statements: the generator is constructed and
   no generate_images call is running. *)
BetweenStatements == gen.pc \in {"idle", "done"} /\ script.todo # <<>>

(* A later add_handlers(hs) of the script, made before or between its
   generate_images calls. *)
AddHandlers(hs) ==
    /\ BetweenStatements /\ Head(script.todo) = add_handlers_call(hs)
    /\ LET size == get_camera_intrinsics(render)
           new  == is_constructed_now(handler, hs)
       IN  IF new /\ size = "ValueError"
           THEN /\ err' = "ValueError"
                /\ gen' = [gen EXCEPT !.pc = "aborted"]
                /\ UNCHANGED handler
           ELSE /\ handler' = IF new THEN construct(handler, size)
                              ELSE handler
                /\ gen' = [gen EXCEPT !.pc = "idle",
                                      !.handlers = add_handlers(@, hs)]
                /\ UNCHANGED err
    /\ script' = [script EXCEPT !.todo = Tail(@), !.records = Len(ds.data)]
    /\ calls' = <<>>
    /\ UNCHANGED <<render, pm, twin, ds, out, place_object,
                   set_light, set_material>>

(* remove_handler(h) of the script, made before or between its
   generate_images calls. *)
RemoveHandler(h) ==
    /\ BetweenStatements /\ Head(script.todo) = remove_handler_call(h)
    /\ gen' = [gen EXCEPT !.pc = "idle",
                          !.handlers = remove_handler(@, h)]
    /\ script' = [script EXCEPT !.todo = Tail(@), !.records = Len(ds.data)]
    /\ calls' = <<>>
    /\ UNCHANGED <<render, handler, pm, twin, ds, out, err, place_object,
                   set_light, set_material>>

(* utils.make_clean_directory(output_dir): the directory exists and holds
   nothing. *)
make_clean_directory(o) ==
    [isdir |-> TRUE, images |-> {}, dataset |-> None, bak |-> None]

(* Variant: the run starts at the number of images found. *)
start_index_count(g, o) ==
    IF g.incremental THEN Cardinality(o.images) ELSE 0

(* Lines 99-106: the first index of this run; glob finds every file with
   the image extension below the image directory. *)
start_index(g, o) ==
    IF g.incremental
    THEN Max({int(basename_stem(x)) : x \in o.images} \cup {0 - 1}) + 1
    ELSE 0

(* generate_images(count), lines 94-106: the first call of the script, or
   a later one on the same Generator once the call before it has returned.
   script notes what the call found: the images in the directory and the
   number of records the label handler holds. *)
GenerateImages(count) ==
    /\ BetweenStatements /\ Head(script.todo) = generate_images_call(count)
    /\ script' = [script EXCEPT !.count = count,
                                !.todo = Tail(@),
                                !.found = out.images,
                                !.records = Len(ds.data)]
    /\ gen' = [gen EXCEPT !.pc = "scene_begin", !.k = 1,
                          !.i = start_index(gen, out),
                          !.stop = start_index(gen, out) + count]
    /\ out' = IF gen.incremental THEN out ELSE make_clean_directory(out)
    /\ calls' = <<>>
    /\ UNCHANGED <<render, handler, pm, twin, ds, err, place_object,
                   set_light, set_material>>

(* Line 108: on_scene_begin of the next handler. *)
SceneBegin ==
    /\ gen.pc = "scene_begin" /\ gen.k <= NumHandlers
    /\ LET hi == CurrentHandler(FALSE)
       IN  /\ ds' = IF gen.handlers[hi] = "dataset" /\ ds.output_path = None
                    THEN [ds EXCEPT !.output_path = <<"dataset.json">>]
                    ELSE ds
           /\ calls' = Append(calls, <<"on_scene_begin", hi>>)
    /\ gen' = [gen EXCEPT !.k = @ + 1]
    /\ UNCHANGED <<script, render, handler, pm, twin, out, err, place_object,
                   set_light, set_material>>

(* Lines 110-111. *)
SetImageSize ==
    /\ gen.pc = "scene_begin" /\ gen.k > NumHandlers
    /\ render' = IF gen.image_size # None
                 THEN set_render_image_size(gen.image_size) ELSE render
    /\ gen' = [gen EXCEPT !.pc = "loop"]
    /\ UNCHANGED <<script, handler, pm, twin, ds, out, calls, err,
                   place_object,
                   set_light, set_material>>

(* Variant: a loop that runs one frame too many. *)
NextImage_one_more ==
    /\ gen.pc = "loop"
    /\ gen' = IF gen.i <= gen.stop
              THEN [gen EXCEPT !.current_image_path =
                                   image_path(gen.i, gen.image_extension),
                               !.pc = "image_begin", !.k = 1]
              ELSE [gen EXCEPT !.pc = "scene_end", !.k = 1]
    /\ UNCHANGED <<script, render, handler, pm, twin, ds, out, calls, err,
                   place_object,
                   set_light, set_material>>

(* Lines 113-114: the next frame, or the end of the loop (line 121). *)
NextImage ==
    /\ gen.pc = "loop"
    /\ gen' = IF gen.i < gen.stop
              THEN [gen EXCEPT !.current_image_path =
                                   image_path(gen.i, gen.image_extension),
                               !.pc = "image_begin", !.k = 1]
              ELSE [gen EXCEPT !.pc = "scene_end", !.k = 1]
    /\ UNCHANGED <<script, render, handler, pm, twin, ds, out, calls, err,
                   place_object,
                   set_light, set_material>>

(* Line 115: on_image_begin of a handler that keeps the no-op hook of the
   base class. *)
ImageBegin ==
    /\ gen.pc = "image_begin" /\ gen.k <= NumHandlers
    /\ gen.handlers[CurrentHandler(FALSE)] \in {"dataset", "base"}
    /\ calls' = Append(calls, <<"on_image_begin", CurrentHandler(FALSE)>>)
    /\ gen' = [gen EXCEPT !.k = @ + 1]
    /\ UNCHANGED <<script, render, handler, pm, twin, ds, out, err,
                   place_object,
                   set_light, set_material>>

(* PlaceObject.on_image_begin on the objects objs, lines 85-89: the object
   gets the location l and the rotation r drawn for it; a component whose
   range is None is not drawn and not touched. *)
place(po, objs, l, r) ==
    [objs EXCEPT ![po.object] =
        [@ EXCEPT !.location = IF po.location_range = None THEN @ ELSE l,
                  !.rotation_euler = IF po.rotation_euler_range = None
                                     THEN @ ELSE r]]

(* The request rng.uniform makes of the stream where its range is given. *)
uniform_request(range) ==
    IF range = None THEN <<>> ELSE <<<<"uniform", range>>>>

(* The requests SetLightHandler.on_image_begin makes of the stream, lines
   321-324. *)
set_light_requests(sl) ==
    uniform_request(sl.power_range) \o uniform_request(sl.color_range)

(* SetLightHandler.on_image_begin, lines 320-324: the light gets the
   energy e and the colour c drawn for it; a value whose range is None is
   not drawn and not touched. *)
set_light_on_image_begin(sl, e, c) ==
    [sl EXCEPT !.energy = IF sl.power_range = None THEN @ ELSE e,
               !.color = IF sl.color_range = None THEN @ ELSE c]

(* The material SetMaterialHandler.on_image_begin picks with the integer
   k of rng.randint, line 275. *)
picked_material(sm, k) == sm.materials[k + 1]

(* The ranges SetMaterialHandler.on_image_begin draws from once it picked
   a material, by the node input the draw is stored in, lines 279-297:
   the colour where the material has the node 'Principled BSDF', the
   three texture values where it has the node 'Mapping'; None where
   nothing is drawn. *)
material_ranges(sm, k) ==
    LET nodes == scene_materials[picked_material(sm, k)]
    IN  [color    |-> IF "Principled BSDF" \in nodes
                      THEN sm.color_range ELSE None,
         location |-> IF "Mapping" \in nodes
                      THEN sm.texture_location_range ELSE None,
         rotation |-> IF "Mapping" \in nodes
                      THEN sm.texture_rotation_range ELSE None,
         scale    |-> IF "Mapping" \in nodes
                      THEN sm.texture_scale_range ELSE None]

(* The requests SetMaterialHandler.on_image_begin makes of the stream
   when rng.randint answers k. *)
set_material_requests(sm, k) ==
    LET ranges == material_ranges(sm, k)
    IN  <<<<"randint", 0, Len(sm.materials)>>>>
        \o uniform_request(ranges.color)
        \o uniform_request(ranges.location)
        \o uniform_request(ranges.rotation)
        \o uniform_request(ranges.scale)

(* SetMaterialHandler.on_image_begin, lines 274-297, with the answers of
   the stream: the picked material becomes the only material of the
   object, and the values drawn go to the inputs of its nodes. *)
set_material_on_image_begin(sm, k, v) ==
    LET material == picked_material(sm, k)
        ranges   == material_ranges(sm, k)
    IN  [sm EXCEPT
            !.object_materials = <<material>>,
            !.inputs[material] =
                [input \in DOMAIN @ |->
                    IF ranges[input] = None THEN @[input] ELSE v[input]]]

(* One step of on_image_begin from the point the record P stands at,
   with the draws l and r where the step is an attempt; a call that is
   over stays as it is. *)
step(h, rnd, P, l, r, touch) ==
    CASE P.pc = "object" -> next_object(h, P)
      [] P.pc = "attempt" -> attempt(h, rnd, P, l, r, touch)
      [] P.pc = "after" -> after_attempts(h, P)
      [] OTHER -> P

(* What the oracle can answer, in the attempt from P with the draws l and
   r, where its answer hangs on rounding: any answer of the build when the
   3D test is made and the candidate's mesh touches a placed mesh, else
   nothing hangs on it. *)
oracle_answers(h, P, l, r) ==
    LET i == P.object_indices[P.pos]
        o == [location       |-> l,
              rotation_euler |-> IF h.rotation_euler_range = None
                                 THEN P.objs[i].rotation_euler ELSE r]
    IN  IF /\ ~h.intersection_3d /\ h.location_range # None
           /\ h.bounds = None
           /\ \E j \in Range(P.successfully_placed) :
                  j # i /\ touching(make_bvhtree(o, i),
                                    make_bvhtree(P.objs[j], j))
        THEN BuildAnswers ELSE {FALSE}

(* The requests the step from P makes of the stream. *)
requests(h, P) ==
    IF P.pc = "attempt" /\ h.location_range # None
    THEN pose_requests(h.location_range, h.rotation_euler_range)
    ELSE <<>>

(* The second run takes a step of its own call.  Where both runs draw a
   pose, the second run's stream repeats the draws l and r of the first
   when the two streams are in one state, else it draws for itself; its
   oracle, the same build, repeats the answer touch of the first where it
   is asked about the same meshes. *)
second_run(l, r, touch) ==
    LET same == pm.pc = "attempt"
        L    == uniform_location(handler.location_range)
        R    == uniform_rotation(handler.rotation_euler_range)
        same_meshes(l2, r2) ==
            /\ same /\ l2 = l /\ r2 = r
            /\ twin.pm.objs = pm.objs
            /\ twin.pm.object_indices = pm.object_indices
            /\ twin.pm.pos = pm.pos
            /\ twin.pm.successfully_placed = pm.successfully_placed
    IN  IF twin.pm.pc # "attempt"
        THEN {[twin EXCEPT !.pm = step(handler, render, @, None, None,
                                       touch)]}
        ELSE UNION
             {{[pm  |-> step(handler, render, twin.pm, l2, r2, touch2),
                rng |-> served(twin.rng, requests(handler, twin.pm))] :
                  touch2 \in IF same_meshes(l2, r2) THEN {touch}
                             ELSE oracle_answers(handler, twin.pm, l2, r2)} :
                l2 \in IF same THEN replay(twin.rng, gen.rng, l, L) ELSE L,
                r2 \in IF same THEN replay(twin.rng, gen.rng, r, R) ELSE R}

(* Line 115: on_image_begin of the PlaceObject handler. *)
PlaceObjectImageBegin ==
    /\ gen.pc = "image_begin" /\ gen.k <= NumHandlers
    /\ gen.handlers[CurrentHandler(FALSE)] = "place_object"
    /\ LET L    == uniform_location(place_object.location_range)
           R    == uniform_rotation(place_object.rotation_euler_range)
           reqs == pose_requests(place_object.location_range,
                                 place_object.rotation_euler_range)
       IN  \E l \in L, r \in R :
           \E l2 \in replay(twin.rng, gen.rng, l, L),
              r2 \in replay(twin.rng, gen.rng, r, R) :
              /\ pm' = no_call(place(place_object, pm.objs, l, r), pm.map2d)
              /\ twin' = [pm  |-> no_call(place(place_object, twin.pm.objs,
                                                l2, r2), twin.pm.map2d),
                          rng |-> served(twin.rng, reqs)]
              /\ gen' = [gen EXCEPT !.k = @ + 1, !.rng = served(@, reqs)]
    /\ calls' = Append(calls, <<"on_image_begin", CurrentHandler(FALSE)>>)
    /\ UNCHANGED <<script, render, handler, ds, out, err, place_object,
                   set_light, set_material>>

(* Line 115: on_image_begin of the SetLightHandler. *)
SetLightImageBegin ==
    /\ gen.pc = "image_begin" /\ gen.k <= NumHandlers
    /\ gen.handlers[CurrentHandler(FALSE)] = "light"
    /\ LET reqs == set_light_requests(set_light)
       IN  \E e \in uniform_stored(set_light.power_range),
              c \in uniform_stored(set_light.color_range) :
              /\ set_light' = set_light_on_image_begin(set_light, e, c)
              /\ twin' = [twin EXCEPT !.rng = served(@, reqs)]
              /\ gen' = [gen EXCEPT !.k = @ + 1, !.rng = served(@, reqs)]
    /\ calls' = Append(calls, <<"on_image_begin", CurrentHandler(FALSE)>>)
    /\ UNCHANGED <<script, render, handler, pm, ds, out, err, place_object,
                   set_material>>

(* Line 115: on_image_begin of the SetMaterialHandler. With no material
   to pick from, rng.randint raises before it draws, and the exception
   ends the script. *)
SetMaterialImageBegin ==
    /\ gen.pc = "image_begin" /\ gen.k <= NumHandlers
    /\ gen.handlers[CurrentHandler(FALSE)] = "material"
    /\ LET K == randint(0, Len(set_material.materials))
       IN  IF K = {}
           THEN /\ err' = "ValueError"
                /\ gen' = [gen EXCEPT !.pc = "aborted"]
                /\ UNCHANGED <<set_material, twin>>
           ELSE /\ \E k \in K :
                   \E k2 \in replay(twin.rng, gen.rng, k, K) :
                   \E v \in [color : uniform_stored(
                                         material_ranges(set_material,
                                                         k).color),
                              location : uniform_stored(
                                         material_ranges(set_material,
                                                         k).location),
                              rotation : uniform_stored(
                                         material_ranges(set_material,
                                                         k).rotation),
                              scale : uniform_stored(
                                         material_ranges(set_material,
                                                         k).scale)] :
                      /\ set_material' =
                             set_material_on_image_begin(set_material, k, v)
                      /\ twin' = [twin EXCEPT !.rng =
                                     served(@, set_material_requests(
                                                   set_material, k2))]
                      /\ gen' = [gen EXCEPT
                                    !.k = @ + 1,
                                    !.rng = served(@, set_material_requests(
                                                          set_material, k))]
                /\ UNCHANGED err
    /\ calls' = Append(calls, <<"on_image_begin", CurrentHandler(FALSE)>>)
    /\ UNCHANGED <<script, render, handler, pm, ds, out, place_object,
                   set_light>>

(* The generator after a step of on_image_begin that left the handler in
   P: the next handler once it returned, the end of the script once it
   raised. *)
resume(g, P) ==
    IF P.pc = "idle" THEN [g EXCEPT !.k = @ + 1]
    ELSE IF P.pc = "raised" THEN [g EXCEPT !.pc = "aborted"]
    ELSE g

(* PlaceMultipleObjectsHandler.on_image_begin, lines 182-193. *)
PlaceBegin ==
    /\ gen.pc = "image_begin" /\ gen.k <= NumHandlers
    /\ gen.handlers[CurrentHandler(FALSE)] = "place"
    /\ pm.pc = "idle"
    /\ LET reqs == <<<<"shuffle", handler.objects>>>>
       IN  \E perm \in Shuffles(handler.objects) :
           \E perm2 \in replay(twin.rng, gen.rng, perm,
                               Shuffles(handler.objects)) :
              /\ pm' = begin_image(handler, pm, perm)
              /\ twin' = [pm  |-> begin_image(handler, twin.pm, perm2),
                          rng |-> served(twin.rng, reqs)]
              /\ gen' = [gen EXCEPT !.rng = served(@, reqs)]
    /\ calls' = Append(calls, <<"on_image_begin", CurrentHandler(FALSE)>>)
    /\ UNCHANGED <<script, render, handler, ds, out, err, place_object,
                   set_light, set_material>>

(* Lines 195-199. *)
PlaceNextObject ==
    /\ gen.pc = "image_begin" /\ pm.pc = "object"
    /\ pm' = next_object(handler, pm)
    /\ twin' \in second_run(None, None, FALSE)
    /\ gen' = resume(gen, pm')
    /\ UNCHANGED <<script, render, handler, ds, out, calls, err, place_object,
                   set_light, set_material>>

(* Lines 201-241: one attempt. *)
PlaceAttempt ==
    /\ gen.pc = "image_begin" /\ pm.pc = "attempt"
    /\ \E l \in uniform_location(handler.location_range),
          r \in uniform_rotation(handler.rotation_euler_range) :
       \E touch \in oracle_answers(handler, pm, l, r) :
          /\ pm' = attempt(handler, render, pm, l, r, touch)
          /\ twin' \in second_run(l, r, touch)
    /\ gen' = resume([gen EXCEPT !.rng = served(@, requests(handler, pm))],
                     pm')
    /\ err' = IF pm'.pc = "raised" THEN pm'.exc ELSE err
    /\ UNCHANGED <<script, render, handler, ds, out, calls, place_object,
                   set_light, set_material>>

(* Lines 243-247. *)
PlaceAfterAttempts ==
    /\ gen.pc = "image_begin" /\ pm.pc = "after"
    /\ pm' = after_attempts(handler, pm)
    /\ twin' \in second_run(None, None, FALSE)
    /\ gen' = resume(gen, pm')
    /\ UNCHANGED <<script, render, handler, ds, out, calls, err, place_object,
                   set_light, set_material>>

(* on_image_begin of the placement handler returns to _run_handlers, in
   both runs; a second run that is still placing takes its next step
   first. *)
PlaceReturn ==
    /\ gen.pc = "image_begin" /\ pm.pc = "return"
    /\ IF twin.pm.pc \in {"object", "attempt", "after"}
       THEN /\ twin' \in second_run(None, None, FALSE)
            /\ UNCHANGED <<pm, gen>>
       ELSE /\ pm' = return(pm)
            /\ twin' = [twin EXCEPT !.pm = IF @.pc = "return" THEN return(@)
                                           ELSE @]
            /\ gen' = resume(gen, pm')
    /\ UNCHANGED <<script, render, handler, ds, out, calls, err, place_object,
                   set_light, set_material>>

(* Lines 116-118: the frame is rendered to its file. *)
Render ==
    /\ gen.pc = "image_begin" /\ gen.k > NumHandlers
    /\ out' = [out EXCEPT !.images = @ \cup {gen.current_image_path}]
    /\ calls' = Append(calls, <<"render", gen.i>>)
    /\ gen' = [gen EXCEPT !.pc = "image_end", !.k = 1]
    /\ UNCHANGED <<script, render, handler, pm, twin, ds, err, place_object,
                   set_light, set_material>>

(* Variant: labels for every object, hidden or not. *)
object_labels_all(objs) == [j \in 1..Len(objs) |-> [category |-> j - 1]]

(* CreateDatasetFileHandler._create_object_labels for every object, lines
   356-360: the categories of the objects that are not hide_render. *)
object_labels(objs) ==
    LET shown(i) == ~objs[i].hide_render
        kept     == SelectSeq([i \in 1..Len(objs) |-> i], shown)
    IN  [j \in 1..Len(kept) |-> [category |-> kept[j] - 1]]

(* CreateDatasetFileHandler._save, lines 396-401. *)
save(o, data) ==
    [o EXCEPT !.bak = IF o.dataset # None THEN o.dataset ELSE @,
              !.dataset = <<data>>]

(* Line 119: on_image_end of the next handler, last handler first. *)
ImageEnd ==
    /\ gen.pc = "image_end" /\ gen.k <= NumHandlers
    /\ LET hi   == CurrentHandler(TRUE)
           data == Append(ds.data, [image |-> gen.current_image_path,
                                    objects |-> object_labels(pm.objs)])
       IN  /\ calls' = Append(calls, <<"on_image_end", hi>>)
           /\ IF gen.handlers[hi] = "dataset"
              THEN ds' = [ds EXCEPT !.data = data] /\ out' = save(out, data)
              ELSE UNCHANGED <<ds, out, place_object,
                               set_light, set_material>>
    /\ gen' = [gen EXCEPT !.k = @ + 1]
    /\ UNCHANGED <<script, render, handler, pm, twin, err, place_object,
                   set_light, set_material>>

(* The end of the loop body: the next value of i. *)
EndImage ==
    /\ gen.pc = "image_end" /\ gen.k > NumHandlers
    /\ gen' = [gen EXCEPT !.i = @ + 1, !.pc = "loop"]
    /\ UNCHANGED <<script, render, handler, pm, twin, ds, out, calls, err,
                   place_object,
                   set_light, set_material>>

(* Line 121: on_scene_end of the next handler, last handler first. *)
SceneEnd ==
    /\ gen.pc = "scene_end" /\ gen.k <= NumHandlers
    /\ LET hi == CurrentHandler(TRUE)
       IN  /\ calls' = Append(calls, <<"on_scene_end", hi>>)
           /\ out' = IF gen.handlers[hi] = "dataset"
                     THEN save(out, ds.data) ELSE out
    /\ gen' = [gen EXCEPT !.k = @ + 1]
    /\ UNCHANGED <<script, render, handler, pm, twin, ds, err, place_object,
                   set_light, set_material>>

(* generate_images returns. *)
Return ==
    /\ gen.pc = "scene_end" /\ gen.k > NumHandlers
    /\ gen' = [gen EXCEPT !.pc = "done"]
    /\ UNCHANGED <<script, render, handler, pm, twin, ds, out, calls, err,
                   place_object,
                   set_light, set_material>>

Next ==
    \/ Construct
    \/ \E hs \in HandlerLists : AddHandlers(hs)
    \/ \E h \in HandlerKinds : RemoveHandler(h)
    \/ \E count \in 0..MaxCount : GenerateImages(count)
    \/ SceneBegin
    \/ SetImageSize
    \/ NextImage
    \/ ImageBegin
    \/ PlaceObjectImageBegin
    \/ SetLightImageBegin
    \/ SetMaterialImageBegin
    \/ PlaceBegin
    \/ PlaceNextObject
    \/ PlaceAttempt
    \/ PlaceAfterAttempts
    \/ PlaceReturn
    \/ Render
    \/ ImageEnd
    \/ EndImage
    \/ SceneEnd
    \/ Return

Spec == Init /\ [][Next]_vars

(* The handlers whose calls are followed to their end: the full attempt
   budget, the location fixed or missing, at most one of the 3D test, the
   2D test and the corner budget active, no map asked for beyond the one
   the 2D test needs, every other argument varied. *)
LiveHandlers ==
    {h \in HandlerArgs :
        /\ h.random_attempt_count = MaxAttempts
        /\ h.location_range \in {None, PointRange}
        /\ ~h.make_map2d
        /\ Cardinality({c \in {"3d", "2d", "corners"} :
               \/ c = "3d" /\ ~h.intersection_3d
               \/ c = "2d" /\ ~h.intersection_2d
               \/ c = "corners" /\ h.max_corners_outside_image # None}) <= 1}

(* The script asks for the removal of a handler that is not on the list,
   adds the placement handler after a handler of no-op hooks, a
   SetLightHandler, a PlaceObject and a SetMaterialHandler, then renders
   one frame. *)
LiveInit ==
    /\ script = script_state(<<remove_handler_call("dataset"),
                               add_handlers_call(<<"place">>),
                               generate_images_call(1)>>,
                             FALSE, empty_directory, <<1>>)
    /\ out = empty_directory
    /\ handler \in LiveHandlers
    /\ place_object = PlainPlaceObject
    /\ set_light = PlainSetLight
    /\ set_material = PlainSetMaterial
    /\ render = scene_render
    /\ gen = new_generator(FALSE, TRUE, None, <<1>>,
                           <<"base", "light", "place_object", "material">>)
    /\ InitCommon

(* The script is one sequential program: a step that can be taken is
   taken. *)
LiveSpec == LiveInit /\ [][Next]_vars /\ WF_vars(Next)

----------------------------------------------------------------------------
(* Claims. *)

InCall == pm.pc \in {"object", "attempt", "after", "return"}

ForwardHooks == {"on_scene_begin", "on_image_begin"}

ReverseHooks == {"on_image_end", "on_scene_end"}

(* C1: each pass over the handler list made by generate_images visits the
   handlers in list order for on_scene_begin and on_image_begin (it starts
   at the first handler and goes on with the next one) and in reverse list
   order for on_image_end and on_scene_end (it starts at the last handler
   and goes on with the one before). *)
C1_HookOrder ==
    \A j \in 1..Len(calls) :
        LET m     == calls[j][1]
            again == j > 1 /\ calls[j - 1][1] = m
        IN  /\ m \in ForwardHooks =>
                   calls[j][2] = IF again THEN calls[j - 1][2] + 1 ELSE 1
            /\ m \in ReverseHooks =>
                   calls[j][2] = IF again THEN calls[j - 1][2] - 1
                                 ELSE NumHandlers

(* A finished run over three handlers with at least one frame. *)
C1_Witness ==
    /\ gen.pc = "done" /\ NumHandlers = 3 /\ script.count >= 1
    /\ \E j \in 1..Len(calls) : calls[j] = <<"on_image_end", 1>>

HookPass(method, n, reverse) ==
    [k \in 1..n |-> <<method, IF reverse THEN n + 1 - k ELSE k>>]

RECURSIVE FramesFrom(_, _, _)
FramesFrom(n, i, stop) ==
    IF i >= stop THEN <<>>
    ELSE HookPass("on_image_begin", n, FALSE) \o <<<<"render", i>>>>
         \o HookPass("on_image_end", n, TRUE) \o FramesFrom(n, i + 1, stop)

(* What generate_images(count) is to call on n handlers, from frame first. *)
Lifecycle(n, first, count) ==
    HookPass("on_scene_begin", n, FALSE) \o FramesFrom(n, first, first + count)
    \o HookPass("on_scene_end", n, TRUE)

IsPrefix(s, t) == Len(s) <= Len(t) /\ \A j \in 1..Len(s) : s[j] = t[j]

(* C2: the calls generate_images(count) has made so far are always the
   beginning of: on_scene_begin on every handler, then per frame all
   on_image_begin, one render, all on_image_end, then on_scene_end on every
   handler; when it returns it has made exactly those calls (with count = 0
   the scene hooks only). *)
C2_Lifecycle ==
    gen.pc \notin {"script", "idle"} =>
        LET want == Lifecycle(NumHandlers, gen.stop - script.count,
                              script.count)
        IN  /\ IsPrefix(calls, want)
            /\ gen.pc = "done" => calls = want

(* A finished run of two frames over two handlers. *)
C2_Witness ==
    /\ gen.pc = "done" /\ NumHandlers = 2 /\ script.count = 2
    /\ Len(calls) = 14

(* The pixels <<x, y>> of an image of the given size that the silhouette
   of object i covers at the pose o, as the frame is projected. *)
SilhouetteAt(o, i, size) ==
    LET hull == compute_convex_hull_on_image(render, o, i)
        b    == bounding_rectangle(hull)
    IN  IF rectangle_corners(b) \subseteq hull
        THEN (Max({0, b[1][1]})..Min({size[1] - 1, b[1][2]}))
                 \X (Max({0, b[2][1]})..Min({size[2] - 1, b[2][2]}))
        ELSE {p \in (0..(size[1] - 1)) \X (0..(size[2] - 1)) :
                 inside(hull, p)}

(* The same at the object's present pose. *)
Silhouette(P, i, size) == SilhouetteAt(P.objs[i], i, size)

(* C3 as stated (refuted by the code): with intersection_2d = False, at
   every point of on_image_begin and when it returns, the silhouettes of
   any two distinct placed objects, rastered on the image the Generator
   renders, share no pixel. *)
C3_Disjoint2D ==
    (InCall /\ ~handler.intersection_2d) =>
        LET raster == [i \in DOMAIN pm.objs |->
                          Silhouette(pm, i, render.res)]
        IN  \A a, b \in Range(pm.successfully_placed) :
                a # b => raster[a] \cap raster[b] = {}

(* The placement handler has begun an on_image_begin call in this run. *)
PlacementStarted ==
    \E j \in 1..Len(calls) :
        calls[j][1] = "on_image_begin" /\ gen.handlers[calls[j][2]] = "place"

(* C4: two independent runs of one script on the same scene, whose
   Generators were given the same seed, one run begun with the objects
   shown and one with the objects hidden, are at the same point of
   on_image_begin at every step, have asked the same of their random
   streams and agree on the pose and the visibility of every object, on the
   placed list, on the map and on the exception raised. *)
C4_Deterministic ==
    (script.rng_seed # None /\ PlacementStarted) =>
        /\ twin.rng = gen.rng
        /\ twin.pm.pc = pm.pc
        /\ twin.pm.objs = pm.objs
        /\ twin.pm.successfully_placed = pm.successfully_placed
        /\ twin.pm.map2d = pm.map2d
        /\ twin.pm.exc = pm.exc

(* Both seeded runs return, having begun from different visibility and
   having drawn poses from a range of more than one point, with one object
   tried MaxAttempts times and one placed. *)
C4_Witness ==
    /\ script.rng_seed # None
    /\ pm.pc = "return" /\ twin.pm.pc = "return"
    /\ handler.location_range = WideRange
    /\ \A i \in DOMAIN pm.entry :
           pm.entry[i].hide_render # twin.pm.entry[i].hide_render
    /\ \E i \in DOMAIN pm.tries : pm.tries[i] = MaxAttempts
    /\ pm.successfully_placed # <<>>

(* The object on_image_begin is working on. *)
CurrentObject == pm.object_indices[pm.pos]

(* C5 as stated (refuted by the code): with a bounds box that no candidate
   pose lies in, on_image_begin does not raise, and when the attempt loop of
   an object is over the object is unplaced and exactly
   random_attempt_count candidates were drawn for it. *)
C5_ExactlyKAttempts ==
    (handler.bounds = FarBox /\ handler.location_range # None) =>
        /\ pm.pc # "raised"
        /\ pm.pc = "after" =>
               /\ ~pm.is_placed
               /\ pm.tries[CurrentObject] = handler.random_attempt_count

(* The floats the range can give, up to the class of the pose: every whole
   tick of [lo, hi), or lo when the range is one point.  Two meshes cross
   at every two floats of a range exactly if they do at every two of its
   ticks. *)
Ticks(range) ==
    IF range[1] = range[2] THEN {range[1]} ELSE range[1]..(range[2] - 1)

(* The meshes of two objects of the scene cross at every two candidate
   poses the configuration can draw for them. *)
AlwaysOverlapping3D(h) ==
    LET rotations(i) == IF h.rotation_euler_range = None
                        THEN {pm.entry[i].rotation_euler}
                        ELSE Ticks(h.rotation_euler_range)
    IN  /\ h.location_range # None
        /\ \A i, j \in DOMAIN pm.objs :
           \A l1, l2 \in Ticks(h.location_range) :
           \A r1 \in rotations(i), r2 \in rotations(j) :
               i # j =>
                   crossing(make_bvhtree([location |-> l1,
                                          rotation_euler |-> r1], i),
                            make_bvhtree([location |-> l2,
                                          rotation_euler |-> r2], j))

Shown(P, i) == ~P.objs[i].hide_viewport /\ ~P.objs[i].hide_render

Hidden(P, i) == P.objs[i].hide_viewport /\ P.objs[i].hide_render

(* C6: with two objects whose candidate poses always overlap in 3D,
   intersection_3d = False, one attempt per object and no other constraint
   on the pose, on_image_begin returns with exactly the first object of the
   permuted order placed and shown and the other one hidden. *)
C6_ExactlyOnePlaced ==
    (/\ pm.pc = "return"
     /\ handler.objects = 2
     /\ ~handler.intersection_3d /\ handler.random_attempt_count = 1
     /\ handler.bounds = None /\ handler.max_corners_outside_image = None
     /\ AlwaysOverlapping3D(handler))
    => /\ pm.successfully_placed = <<pm.object_indices[1]>>
       /\ Shown(pm, pm.object_indices[1])
       /\ Hidden(pm, pm.object_indices[2])

(* Such a call returns, the poses drawn from a range of more than one
   point and the second object having been tried once. *)
C6_Witness ==
    /\ pm.pc = "return"
    /\ handler.location_range = NarrowRange
    /\ handler.objects = 2
    /\ ~handler.intersection_3d /\ handler.random_attempt_count = 1
    /\ handler.bounds = None /\ handler.max_corners_outside_image = None
    /\ AlwaysOverlapping3D(handler)
    /\ pm.tries[pm.object_indices[2]] = 1
    /\ pm.objs[1].location # pm.objs[2].location
    /\ Len(pm.successfully_placed) = 1

(* The label fillPoly writes for object i: obj_i + 1 with obj_i = i - 1. *)
Label(i) == (i - 1) + 1

(* The pixels <<x, y>> of the map that carry the label of object i; the
   pixel <<x, y>> is index x + 1 of row y + 1. *)
Labelled(P, i) ==
    {p \in (0..(handler.image_size[1] - 1)) \X (0..(handler.image_size[2] - 1)) :
        P.map2d[p[2] + 1][p[1] + 1] = Label(i)}

(* C7 as stated (refuted): when a map is built, at the end of
   on_image_begin an object has at least one pixel of the map labelled for
   it if and only if it is in the placed list. *)
C7_PixelIffPlaced ==
    (pm.pc = "return" /\ is_map2d_required(handler)) =>
        \A i \in DOMAIN pm.objs :
            Labelled(pm, i) # {} <=> i \in Range(pm.successfully_placed)

(* Object j was placed after object i in this call. *)
PlacedAfter(P, i, j) ==
    \E a, b \in DOMAIN P.successfully_placed :
        a < b /\ P.successfully_placed[a] = i /\ P.successfully_placed[b] = j

(* The placed objects of P, each with the pixels of the map its silhouette
   covers as the frame is projected: the pairs <<object, pixels>>. *)
PlacedSilhouettes(P) ==
    {<<i, Silhouette(P, i, handler.image_size)>> :
        i \in Range(P.successfully_placed)}

(* C7 amended: when a map is built, at every point of on_image_begin
   every marked pixel of the map carries the label of an object of the
   placed list and lies inside that object's silhouette, and every pixel
   of the map inside the silhouette of a placed object carries that
   object's label or the label of an object placed after it whose
   silhouette covers the pixel. *)
C7_MapMatchesPlaced ==
    (InCall /\ is_map2d_required(handler)) =>
        LET placed == PlacedSilhouettes(pm)
        IN  \A r \in 1..Len(pm.map2d) : \A c \in 1..Len(pm.map2d[r]) :
                LET p == <<c - 1, r - 1>>
                IN  /\ pm.map2d[r][c] # 0 =>
                           \E h \in placed : /\ pm.map2d[r][c] = Label(h[1])
                                             /\ p \in h[2]
                    /\ \A h \in placed :
                           p \in h[2] =>
                               \/ pm.map2d[r][c] = Label(h[1])
                               \/ \E g \in placed :
                                      /\ PlacedAfter(pm, h[1], g[1])
                                      /\ pm.map2d[r][c] = Label(g[1])
                                      /\ p \in g[2]

(* The call returns with a map and two placed objects, one of them with
   pixels of its own and one without. *)
C7_Witness ==
    /\ pm.pc = "return" /\ is_map2d_required(handler)
    /\ Len(pm.successfully_placed) = 2
    /\ \E i, j \in Range(pm.successfully_placed) :
           Labelled(pm, i) # {} /\ Labelled(pm, j) = {}

(* C8: when on_image_begin returns, an object is shown (hide_viewport and
   hide_render both False) if and only if it is in the placed list of this
   call, and every other object is hidden in both flags. *)
C8_VisibleIffPlaced ==
    pm.pc = "return" =>
        \A i \in DOMAIN pm.objs :
            /\ Shown(pm, i) <=> i \in Range(pm.successfully_placed)
            /\ i \notin Range(pm.successfully_placed) => Hidden(pm, i)

(* The call returns with one object placed and one that used up its
   attempts, on a scene whose objects were all shown before. *)
C8_Witness ==
    /\ pm.pc = "return"
    /\ \A i \in DOMAIN pm.entry : ~pm.entry[i].hide_render
    /\ \E i, j \in DOMAIN pm.objs :
           /\ i \in Range(pm.successfully_placed) /\ Shown(pm, i)
           /\ j \notin Range(pm.successfully_placed) /\ Hidden(pm, j)
           /\ pm.tries[j] = handler.random_attempt_count

(* Object i was tried in this call and is not in the placed list. *)
Failed(P, i) == P.tries[i] >= 1 /\ i \notin Range(P.successfully_placed)

(* Nothing in this call touched object i: no attempt, no draw, the pose the
   call found, and hidden. *)
Untried(P, i) ==
    /\ P.tries[i] = 0
    /\ \A j \in 1..Len(P.rng_log) :
           P.rng_log[j][1] = "shuffle" \/ P.rng_log[j][2] # i
    /\ P.objs[i].location = P.entry[i].location
    /\ P.objs[i].rotation_euler = P.entry[i].rotation_euler
    /\ Hidden(P, i)

(* C9: when on_image_begin returns with break_on_first_failed set and an
   object that used up its attempts, that object is the one the loop
   stopped at and every object after it in the permuted order is untried:
   hidden, its pose as before the call, no attempt and no draw made for it;
   otherwise every object was tried. *)
C9_BreakOnFirstFailed ==
    pm.pc = "return" =>
        IF handler.break_on_first_failed
           /\ \E i \in DOMAIN pm.objs : Failed(pm, i)
        THEN /\ pm.pos <= Len(pm.object_indices)
             /\ Failed(pm, pm.object_indices[pm.pos])
             /\ \A q \in (pm.pos + 1)..Len(pm.object_indices) :
                    Untried(pm, pm.object_indices[q])
        ELSE \A i \in DOMAIN pm.objs : pm.tries[i] >= 1

(* The call returns early: the first object failed MaxAttempts times, the
   second one, shown before the call, is left untried. *)
C9_Witness ==
    /\ pm.pc = "return" /\ handler.break_on_first_failed
    /\ pm.pos = 1 /\ Len(pm.object_indices) = 2
    /\ pm.tries[pm.object_indices[1]] = MaxAttempts
    /\ ~pm.entry[pm.object_indices[2]].hide_render
    /\ Untried(pm, pm.object_indices[2])

(* C10 as stated (refuted by the code): no step of a placement and no
   render of a run with the placement handler happens while
   resolution_percentage is not 100. *)
C10_NeverScaled ==
    (/\ "place" \in Range(gen.handlers)
     /\ \/ pm.pc # "idle"
        \/ \E j \in 1..Len(calls) : calls[j][1] = "render")
    => render.pct = 100

(* C11 as stated (refuted by the code): whenever a 2D constraint is
   active, the map on_image_begin allocates has resolution_y rows of
   resolution_x columns of the image the Generator renders. *)
C11_MapHasRenderSize ==
    (InCall /\ is_map2d_required(handler)) =>
        /\ Len(pm.map2d) = render.res[2]
        /\ \A r \in 1..Len(pm.map2d) : Len(pm.map2d[r]) = render.res[1]

(* C12: at every point of on_image_begin with a map and N objects, every
   pixel of the map holds 0 or a value k in 1..N, and a value k lies inside
   the silhouette of the object with index k - 1 of the configured list
   (object k of the model), which is in the placed list. *)
C12_MapValues ==
    (InCall /\ is_map2d_required(handler)) =>
        LET placed == PlacedSilhouettes(pm)
        IN  \A r \in 1..Len(pm.map2d) : \A c \in 1..Len(pm.map2d[r]) :
                LET k == pm.map2d[r][c]
                IN  /\ k \in 0..handler.objects
                    /\ k # 0 => \E h \in placed :
                                    /\ h[1] = (k - 1) + 1
                                    /\ <<c - 1, r - 1>> \in h[2]

(* A map that holds empty pixels and pixels of every one of the
   MaxObjects objects, in more than one row. *)
C12_Witness ==
    /\ InCall /\ is_map2d_required(handler)
    /\ \A k \in 0..MaxObjects :
           \E r \in 1..Len(pm.map2d) : \E c \in 1..Len(pm.map2d[r]) :
               pm.map2d[r][c] = k
    /\ \E r \in 2..Len(pm.map2d) : \E c \in 1..Len(pm.map2d[r]) :
           pm.map2d[r][c] # 0 /\ pm.map2d[r][c] # pm.map2d[1][c]

(* The value of a string of decimal digits, read from the left. *)
RECURSIVE DecimalValue(_)
DecimalValue(x) ==
    IF x = <<>> THEN 0
    ELSE (CHOOSE d \in 0..9 : digit_chars[d + 1] = Head(x))
             * 10 ^ (Len(x) - 1)
         + DecimalValue(Tail(x))

(* x is n written in decimal with zeros on the left up to width digits. *)
ZeroPadded(x, n, width) ==
    /\ \A k \in 1..Len(x) : x[k] \in Range(digit_chars)
    /\ Len(x) >= width
    /\ DecimalValue(x) = n
    /\ Len(x) > width => x[1] # "0"

(* p is the relative path the claim gives frame i. *)
IsPathOf(p, i) ==
    \E slash \in 1..Len(p) :
        /\ p[slash] = "/"
        /\ ZeroPadded(SubSeq(p, 1, slash - 1), i \div 1000, 4)
        /\ ZeroPadded(SubSeq(p, slash + 1, Len(p) - 2), i, 7)
        /\ p[Len(p) - 1] = "." /\ p[Len(p)] = gen.image_extension

(* The frame indices rendered so far in this run. *)
Rendered == {calls[j][2] : j \in {k \in 1..Len(calls) : calls[k][1] = "render"}}

(* C13: while frame i is processed (looked at between the steps of the
   handlers' hooks) current_image_path is the 4-digit
   zero-padded i div 1000, a slash, the 7-digit zero-padded i, a dot and
   the extension; every rendered frame has a file of that path, and
   distinct rendered frames have distinct files. *)
C13_ImagePath ==
    /\ gen.pc \in {"image_begin", "image_end"} /\ pm.pc = "idle" =>
           IsPathOf(gen.current_image_path, gen.i)
    /\ \A i \in Rendered : \E p \in out.images : IsPathOf(p, i)
    /\ Cardinality({p \in out.images : \E i \in Rendered : IsPathOf(p, i)})
           = Cardinality(Rendered)

(* Frame 1234 and the frame after it are rendered, 1234 to
   0001/0001234.png. *)
C13_Witness ==
    /\ Rendered = {1234, 1235}
    /\ <<"0", "0", "0", "1", "/", "0", "0", "0", "1", "2", "3", "4",
         ".", "png">> \in out.images

(* The script asked for incremental and the output directory existed when
   the Generator was constructed. *)
Incremental == script.incremental /\ script.isdir

(* The index the claim gives the first new frame. *)
FirstNewIndex ==
    IF Incremental
    THEN 1 + Max({DecimalValue(basename_stem(p)) : p \in script.found}
                 \cup {0 - 1})
    ELSE 0

(* C14: once generate_images(count) has started, the frames rendered so far
   are the consecutive indices from the first new index (1 + the largest
   index found in incremental mode, else 0), all count of them at return;
   in incremental mode every image found is still there and no rendered
   frame has the path of one; otherwise (incremental not asked for, or no
   output directory at construction) the directory holds nothing but the
   frames rendered in this run. *)
C14_Incremental ==
    gen.pc \notin {"script", "idle", "aborted"} =>
        /\ Rendered = FirstNewIndex..(FirstNewIndex + Cardinality(Rendered) - 1)
        /\ Cardinality(Rendered) <= script.count
        /\ gen.pc = "done" => Cardinality(Rendered) = script.count
        /\ IF Incremental
           THEN /\ script.found \subseteq out.images
                /\ \A p \in script.found : \A i \in Rendered : ~IsPathOf(p, i)
           ELSE /\ out.isdir
                /\ \A p \in out.images : \E i \in Rendered : IsPathOf(p, i)

(* An incremental run over a directory holding frames 0 and 2 has
   returned, having rendered frames 3 and 4. *)
C14_Witness ==
    /\ gen.pc = "done" /\ Incremental
    /\ script.found = {image_path(0, "png"), image_path(2, "png")}
    /\ Rendered = {3, 4}
    /\ Cardinality(out.images) = 4

(* The on_image_end calls made so far on the label handler. *)
LabelCalls ==
    {j \in 1..Len(calls) :
        calls[j][1] = "on_image_end" /\ gen.handlers[calls[j][2]] = "dataset"}

(* The frame index rendered before position j of the call log. *)
FrameBefore(j) ==
    calls[Max({k \in 1..j : calls[k][1] = "render"})][2]

(* C15: the label handler holds, after the records it held when this
   generate_images call began, one record per on_image_end call made on
   it, the k-th of them carrying the path of the k-th frame; the objects of
   a record are listed by strictly increasing category, every category
   being an index of the configured list; and the record of the frame just
   finished lists exactly the objects whose hide_render is False, so an
   object the placement left unplaced in the frame is not in it. *)
C15_LabelRecords ==
    "dataset" \in Range(gen.handlers) =>
        /\ Len(ds.data) = script.records + Cardinality(LabelCalls)
        /\ \A j \in LabelCalls :
               IsPathOf(ds.data[script.records
                                + Cardinality({k \in LabelCalls : k <= j})].image,
                        FrameBefore(j))
        /\ \A k \in 1..Len(ds.data) :
               LET objects == ds.data[k].objects
               IN  /\ \A a \in 1..Len(objects) :
                          objects[a].category \in 0..(Len(pm.objs) - 1)
                   /\ \A a, b \in 1..Len(objects) :
                          a < b => objects[a].category < objects[b].category
        /\ (/\ ds.data # <<>> /\ pm.pc = "idle"
            /\ gen.pc \in {"image_end", "loop"}
            /\ ds.data[Len(ds.data)].image = gen.current_image_path
            /\ \E j \in LabelCalls : \A k \in 1..Len(calls) :
                   calls[k][1] = "render" => k < j)
           => {ds.data[Len(ds.data)].objects[a].category :
                   a \in 1..Len(ds.data[Len(ds.data)].objects)}
              = {i - 1 : i \in {q \in 1..Len(pm.objs) : ~pm.objs[q].hide_render}}

(* Two frames were labelled after the placement handler ran, each record
   with one object of the two. *)
C15_Witness ==
    /\ gen.pc = "done" /\ "place" \in Range(gen.handlers)
    /\ Len(ds.data) = 2
    /\ \A k \in 1..2 : Len(ds.data[k].objects) = 1

(* An attempt on the current object has just been accepted and a map
   exists. *)
JustAccepted ==
    pm.pc = "after" /\ pm.is_placed /\ is_map2d_required(handler)

(* C16 as stated (refuted): right after an attempt is accepted, the map
   pixels of the object's silhouette hold the object's 1-based position in
   the permuted processing order. *)
C16_LabelIsPosition ==
    JustAccepted =>
        \A p \in Silhouette(pm, CurrentObject, handler.image_size) :
            pm.map2d[p[2] + 1][p[1] + 1] = pm.pos

(* C16 amended: right after an attempt is accepted, the map pixels of the
   object's silhouette hold the object's index in the configured list
   plus one, whatever its position in the permuted order. *)
C16_LabelIsIndex ==
    JustAccepted =>
        \A p \in Silhouette(pm, CurrentObject, handler.image_size) :
            pm.map2d[p[2] + 1][p[1] + 1] = (CurrentObject - 1) + 1

(* The object processed first is the second of the configured list and
   has just been filled into the map, into more than one row of it. *)
C16_Witness ==
    /\ JustAccepted /\ pm.pos = 1 /\ CurrentObject = 2
    /\ \E p, q \in Silhouette(pm, CurrentObject, handler.image_size) :
           p[2] # q[2]

(* C17 as stated (refuted by the code): once the end hooks of an image
   have run, and after the run, the handler holds no map. *)
C17_MapDiscarded ==
    (\/ gen.pc \in {"scene_end", "done"}
     \/ gen.pc = "loop" /\ Rendered # {})
    => pm.map2d = None

(* The place of object i in the permuted order of this call. *)
PositionOf(P, i) == CHOOSE q \in 1..Len(P.object_indices) : P.object_indices[q] = i

(* The positions of the draw log that hold a draw of this kind for
   object i. *)
DrawsOf(P, kind, i) ==
    {j \in 2..Len(P.rng_log) : P.rng_log[j] = <<kind, i>>}

(* C18: at every point of on_image_begin the draw log begins with the one
   shuffle of the indices of all configured objects (also of none or one),
   made when every object is hidden, and holds no other shuffle; the pose
   draws after it follow the permuted order of the objects and, for each
   object, come attempt by attempt: one location draw per attempt begun,
   each followed at once by the rotation draw of the same attempt when a
   rotation range is configured. *)
C18_DrawOrder ==
    InCall =>
        /\ Len(pm.rng_log) >= 1
        /\ pm.rng_log[1] = <<"shuffle", handler.objects>>
        /\ \A j \in 2..Len(pm.rng_log) :
               pm.rng_log[j][1] \in {"location", "rotation"}
        /\ Len(pm.rng_log) = 1 /\ pm.pos = 1 /\ pm.pc = "object" =>
               \A i \in DOMAIN pm.objs : Hidden(pm, i)
        /\ \A j \in 3..Len(pm.rng_log) :
               PositionOf(pm, pm.rng_log[j - 1][2])
                   <= PositionOf(pm, pm.rng_log[j][2])
        /\ \A i \in DOMAIN pm.objs :
               /\ Cardinality(DrawsOf(pm, "location", i)) = pm.tries[i]
               /\ Cardinality(DrawsOf(pm, "rotation", i)) =
                      IF handler.rotation_euler_range = None THEN 0
                      ELSE pm.tries[i]
               /\ \A j \in DrawsOf(pm, "rotation", i) :
                      j - 1 \in DrawsOf(pm, "location", i)

(* A call on two objects returns after the second of the order was given
   MaxAttempts attempts, each with a location and a rotation draw. *)
C18_Witness ==
    /\ pm.pc = "return" /\ handler.objects = 2
    /\ \E i \in DOMAIN pm.objs :
           /\ pm.tries[i] = MaxAttempts
           /\ Len(pm.rng_log) = 3 + 2 * MaxAttempts
           /\ \A j \in 1..(2 * MaxAttempts) :
                  pm.rng_log[3 + j] =
                      <<IF j % 2 = 1 THEN "location" ELSE "rotation", i>>

(* C19 as stated (refuted by the code): with no bounds box, an attempt
   never raises; it makes a location draw only when location_range is
   configured and a rotation draw only when rotation_euler_range is, and a
   pose component whose range is None keeps the value it had when the call
   began. *)
C19_OmittedRange ==
    handler.bounds = None =>
        /\ pm.pc # "raised"
        /\ InCall =>
               \A i \in DOMAIN pm.objs :
                   /\ Cardinality(DrawsOf(pm, "location", i)) =
                          IF handler.location_range = None THEN 0
                          ELSE pm.tries[i]
                   /\ Cardinality(DrawsOf(pm, "rotation", i)) =
                          IF handler.rotation_euler_range = None THEN 0
                          ELSE pm.tries[i]
                   /\ handler.location_range = None =>
                          pm.objs[i].location = pm.entry[i].location
                   /\ handler.rotation_euler_range = None =>
                          pm.objs[i].rotation_euler = pm.entry[i].rotation_euler

(* The image point p lies in the image the handler holds the size of. *)
InImage(p) ==
    /\ 0 <= p[1] /\ p[1] < handler.image_size[1]
    /\ 0 <= p[2] /\ p[2] < handler.image_size[2]

(* The candidate pose cand of object i satisfies every active constraint
   against the objects that P holds as placed (no bounds box configured):
   at most the budget of its silhouette's corners lie outside the image,
   its mesh crosses the mesh of no placed object, its silhouette shares no
   pixel of the map with the silhouette of a placed object. *)
Satisfies(P, cand, i) ==
    LET hull == compute_convex_hull_on_image(render, cand, i)
    IN  /\ handler.max_corners_outside_image # None =>
               Cardinality({p \in hull : ~InImage(p)})
                   <= handler.max_corners_outside_image[1]
        /\ ~handler.intersection_3d =>
               \A j \in Range(P.successfully_placed) :
                   ~crossing(make_bvhtree(cand, i),
                             make_bvhtree(P.objs[j], j))
        /\ ~handler.intersection_2d =>
               \A j \in Range(P.successfully_placed) :
                   SilhouetteAt(cand, i, handler.image_size)
                       \cap Silhouette(P, j, handler.image_size) = {}

(* One attempt that does not raise: the candidate is accepted exactly when
   it satisfies the constraints, and then the attempt loop is left. *)
AttemptDecides ==
    (pm.pc = "attempt" /\ pm'.pc # "raised") =>
        /\ pm'.is_placed <=> Satisfies(pm, pm'.objs[CurrentObject],
                                       CurrentObject)
        /\ pm'.is_placed => pm'.pc = "after"
        /\ ~pm'.is_placed /\ pm'.pc = "after" =>
               pm'.tries[CurrentObject] = handler.random_attempt_count

(* While the call goes on, no draw is made for a placed object and its
   pose stays the accepted one. *)
PlacedStays ==
    (InCall /\ pm'.pc \in {"object", "attempt", "after", "return"}) =>
        \A i \in Range(pm.successfully_placed) :
            /\ pm'.objs[i].location = pm.objs[i].location
            /\ pm'.objs[i].rotation_euler = pm.objs[i].rotation_euler
            /\ pm'.tries[i] = pm.tries[i]
            /\ i \in Range(pm'.successfully_placed)

(* C20: every attempt that does not raise accepts its candidate if and only
   if the candidate satisfies all active constraints, so the accepted pose
   is the first such candidate of the object in draw order; an object is
   given up only after random_attempt_count candidates none of which
   satisfied them; and after the acceptance no candidate is drawn for the
   object and its pose is kept to the end of the call. *)
C20_FirstFit == [][AttemptDecides /\ PlacedStays]_vars

(* An object is placed by its last attempt, after MaxAttempts - 1
   candidates were rejected, while another object is already placed. *)
C20_Witness ==
    /\ pm.pc = "after" /\ pm.is_placed
    /\ pm.tries[CurrentObject] = MaxAttempts
    /\ Len(pm.successfully_placed) = 2

(* A bounding-box corner of object i at the pose o projects onto the
   border of two pixels, in x or in y. *)
OnPixelBorder(o, i) ==
    \E q \in project_bounding_box_on_image(render, o, i) : \E k \in 1..2 :
        (2 * q[k][1]) % (2 * q[k][2]) = q[k][2]

(* The script is about to start, at the scene file's resolution, with a
   handler that draws locations from a range of more than one point and
   is otherwise the plain one. *)
RangeVaried ==
    /\ calls = <<>> /\ pm.pc = "idle" /\ script.todo # <<>>
    /\ render = scene_render
    /\ handler.location_range # None
    /\ handler.location_range[1] < handler.location_range[2]
    /\ handler = [PlainHandler EXCEPT
                     !.objects = handler.objects,
                     !.location_range = handler.location_range,
                     !.rotation_euler_range = handler.rotation_euler_range]

(* The pose of a candidate of object i drawn at the location l. *)
CandidatePose(i, l) ==
    [location       |-> l,
     rotation_euler |-> IF handler.rotation_euler_range = None
                        THEN pm.objs[i].rotation_euler
                        ELSE handler.rotation_euler_range[1]]

(* The locations of a set that leave no corner of object i on a pixel
   border, each with the hull it gives the object: pairs <<l, hull>>. *)
HullsAt(i, locations) ==
    {<<l, compute_convex_hull_on_image(render, CandidatePose(i, l), i)>> :
        l \in {t \in locations : ~OnPixelBorder(CandidatePose(i, t), i)}}

(* Every silhouette an object can be given by a location of the range, off
   the pixel borders, is the silhouette at one of the locations drawn. *)
EveryPixelClassDrawn ==
    \A i \in DOMAIN pm.objs :
        {a[2] : a \in HullsAt(i, Ticks(handler.location_range))}
            \subseteq
        {a[2] : a \in HullsAt(i, uniform_location(handler.location_range))}

(* What the placement can tell of object i at a[1] and object j at b[1]:
   the two hulls, whether the meshes cross, whether they only touch. *)
PairClass(i, a, j, b) ==
    LET t1 == make_bvhtree(CandidatePose(i, a[1]), i)
        t2 == make_bvhtree(CandidatePose(j, b[1]), j)
    IN  <<a[2], b[2], crossing(t1, t2), touching(t1, t2)>>

(* Whatever two locations of the range give two objects, off the pixel
   borders and the meshes not merely touching, two of the locations drawn
   give them the same silhouettes and meshes that cross, or lie apart,
   alike. *)
EveryPairClassDrawn ==
    \A i, j \in DOMAIN pm.objs :
        i < j =>
            LET ticks(k) == HullsAt(k, Ticks(handler.location_range))
                draws(k) == HullsAt(k, uniform_location(
                                           handler.location_range))
            IN  {c \in {PairClass(i, a, j, b) :
                           a \in ticks(i), b \in ticks(j)} : ~c[4]}
                    \subseteq
                {PairClass(i, a, j, b) : a \in draws(i), b \in draws(j)}

(* The current object has had a candidate drawn and checked in this call
   and the call has not moved on. *)
CandidateChecked ==
    pm.pc \in {"attempt", "after"} /\ pm.tries[CurrentObject] >= 1

(* C21: with intersection_3d = False, at every point of on_image_begin and
   when it returns, no two distinct objects of the placed list overlap
   according to is_mesh_intersecting, asked either way round; the oracle
   answers False for any object against the empty list and for any object
   against itself, and so for a placed object against the whole placed
   list once the others are clear of it.  Where two meshes only touch the
   answer of BVHTree.overlap hangs on the build, and the placed objects
   are clear of each other under every answer a build can give: the mesh
   of a candidate just drawn touches the mesh of no other object posed in
   the call, so the oracle is never asked about such a pair. *)
C21_Disjoint3D ==
    /\ (InCall /\ ~handler.intersection_3d) =>
        \A touch \in BuildAnswers :
        /\ \A a, b \in Range(pm.successfully_placed) :
               a # b => ~is_mesh_intersecting(pm.objs, <<a>>, <<b>>, touch)
        /\ \A a \in Range(pm.successfully_placed) :
               ~is_mesh_intersecting(pm.objs, <<a>>, pm.successfully_placed,
                                     touch)
        /\ \A i \in DOMAIN pm.objs :
               /\ ~is_mesh_intersecting(pm.objs, <<i>>, <<>>, touch)
               /\ ~is_mesh_intersecting(pm.objs, <<i>>, <<i>>, touch)
    /\ CandidateChecked =>
        LET t1 == make_bvhtree(pm.objs[CurrentObject], CurrentObject)
        IN  \A j \in DOMAIN pm.objs :
                (j # CurrentObject /\ pm.tries[j] >= 1) =>
                    LET t2 == make_bvhtree(pm.objs[j], j)
                    IN  ~touching(t1, t2)
    /\ RangeVaried => EveryPairClassDrawn

(* The call returns with two objects placed under the 3D test, the second
   one accepted by its last attempt after a candidate was rejected. *)
C21_Witness ==
    /\ pm.pc = "return" /\ ~handler.intersection_3d
    /\ handler.intersection_2d
    /\ handler.max_corners_outside_image = None
    /\ handler.location_range = WideRange
    /\ Len(pm.successfully_placed) = 2
    /\ pm.tries[pm.successfully_placed[2]] = MaxAttempts

(* Every bounding-box corner of object i and of its descendants, each
   through the transform of its own node at the pose o, lies in the bounds
   box, faces included. *)
InBox(h, o, i) ==
    \A d \in Range(flatten_object_hierarchy(i)) : \A p \in bound_box(i) :
        \A k \in 1..3 :
            /\ h.bounds[1][k] <= matrix_world(o, d, p)[k]
            /\ matrix_world(o, d, p)[k] <= h.bounds[2][k]

(* C22 as stated (refuted by the code): an attempt never raises in the
   containment check, and with no other constraint active the candidate of
   the attempt that ended the attempt loop was accepted if and only if no
   bounds box is configured or every bounding-box corner of the object and
   its descendants lies in the box. *)
C22_Containment ==
    (/\ handler.location_range # None
     /\ handler.intersection_3d /\ handler.intersection_2d
     /\ handler.max_corners_outside_image = None)
    => /\ pm.pc # "raised"
       /\ pm.pc = "after" =>
              (pm.is_placed <=>
                  \/ handler.bounds = None
                  \/ InBox(handler, pm.objs[CurrentObject], CurrentObject))

(* The number of silhouette corners of object i that lie outside the
   image of the handler: x < 0, y < 0, x >= width or y >= height. *)
CornersOutside(P, i) ==
    LET hull == compute_convex_hull_on_image(render, P.objs[i], i)
    IN  Cardinality({p \in hull : ~InImage(p)})

(* No constraint other than the corner budget is active. *)
OnlyCornerBudget ==
    /\ handler.bounds = None /\ handler.location_range # None
    /\ handler.intersection_3d /\ handler.intersection_2d

(* C23: with a corner budget, the candidate just checked is rejected
   whenever more of its silhouette corners than the budget lie outside the
   image (x < 0, y < 0, x >= width or y >= height), and with no other
   constraint active it is accepted whenever their number is at most the
   budget; every placed object has at most that many corners outside;
   without a budget and with no other constraint active every candidate is
   accepted.  No corner of a candidate projects onto the border of two
   pixels, where the pixel it is counted in would hang on the rounding. *)
C23_CornerBudget ==
    /\ (CandidateChecked /\ handler.max_corners_outside_image # None) =>
           /\ CornersOutside(pm, CurrentObject)
                  > handler.max_corners_outside_image[1] => ~pm.is_placed
           /\ OnlyCornerBudget =>
                  (pm.is_placed <=>
                      CornersOutside(pm, CurrentObject)
                          <= handler.max_corners_outside_image[1])
    /\ (InCall /\ handler.max_corners_outside_image # None) =>
           \A i \in Range(pm.successfully_placed) :
               CornersOutside(pm, i) <= handler.max_corners_outside_image[1]
    /\ (/\ CandidateChecked /\ handler.max_corners_outside_image = None
        /\ OnlyCornerBudget) => pm.is_placed
    /\ CandidateChecked => ~OnPixelBorder(pm.objs[CurrentObject], CurrentObject)
    /\ RangeVaried => EveryPixelClassDrawn

(* With no other constraint active, a candidate with exactly as many
   corners outside as the budget allows, all of them below the image, is
   accepted after a candidate with more was rejected. *)
C23_Witness ==
    /\ pm.pc = "after" /\ pm.is_placed
    /\ OnlyCornerBudget /\ handler.max_corners_outside_image = <<2>>
    /\ CornersOutside(pm, CurrentObject) = handler.max_corners_outside_image[1]
    /\ \A p \in compute_convex_hull_on_image(render, pm.objs[CurrentObject],
                                             CurrentObject) :
           0 <= p[1] /\ p[1] < handler.image_size[1]
    /\ pm.tries[CurrentObject] = MaxAttempts

(* The records of the label file as it stands in the output directory. *)
LabelFile == out.dataset[1]

(* C24 as stated (refuted by the code): whenever the output directory
   holds a label file, every record of the file names an image that is in
   the image directory.  Images are only added, or removed together with
   the label file, so the two can come apart only when the file is
   written. *)
C24_RecordsHaveImages ==
    out.dataset # None =>
        \A k \in 1..Len(LabelFile) : LabelFile[k].image \in out.images

(* C25 as stated (refuted by the code): when a generate_images call with
   the label handler has returned, the label file exists and its records
   name the images of the image directory, each of them once and none
   else, by increasing frame index. *)
C25_OneRecordPerFrame ==
    (gen.pc = "done" /\ "dataset" \in Range(gen.handlers)) =>
        /\ out.dataset # None
        /\ Len(LabelFile) = Cardinality(out.images)
        /\ \A p \in out.images :
               \E k \in 1..Len(LabelFile) : LabelFile[k].image = p
        /\ \A a, b \in 1..Len(LabelFile) :
               a < b => DecimalValue(basename_stem(LabelFile[a].image))
                            < DecimalValue(basename_stem(LabelFile[b].image))

(* The attempts begun so far in this call, over all objects. *)
RECURSIVE AttemptsBegun(_, _)
AttemptsBegun(P, n) ==
    IF n = 0 THEN 0 ELSE P.tries[n] + AttemptsBegun(P, n - 1)

(* No object was given more than random_attempt_count attempts in this
   call, and the call made at most N times as many in all. *)
AttemptsBounded ==
    pm.pc # "idle" =>
        /\ \A i \in DOMAIN pm.objs :
               pm.tries[i] <= handler.random_attempt_count
        /\ AttemptsBegun(pm, Len(pm.objs))
               <= Len(pm.objs) * handler.random_attempt_count

(* on_image_begin is over: it returned or it raised. *)
CallOver == pm.pc \in {"idle", "raised"}

(* C26: every on_image_begin call of the placement handler ends, and at
   every point of it no object has been given more than
   random_attempt_count attempts and at most N * random_attempt_count
   attempts have been made for the N objects, whatever was drawn and
   whatever the constraints answered. *)
C26_Terminates == []AttemptsBounded /\ (InCall ~> CallOver)

(* A call is about to return after every one of the MaxObjects objects
   used up MaxAttempts attempts. *)
C26_Witness ==
    /\ pm.pc = "return" /\ handler.objects = MaxObjects
    /\ \A i \in DOMAIN pm.objs : pm.tries[i] = MaxAttempts
    /\ AttemptsBegun(pm, Len(pm.objs)) = MaxObjects * MaxAttempts

(* The configured objects that are visible: neither hide flag set. *)
Visible(P) == {i \in DOMAIN P.objs : Shown(P, i)}

(* C27: at every point of on_image_begin every object is either shown or
   hidden in both flags; before an attempt and after it, until the attempt
   loop of the object is left, the visible objects are the placed ones and
   the object being tried; between two objects and at the return they are
   the placed ones alone, so all are hidden before the first object is
   tried and a failed object is hidden before the next one is. *)
C27_VisibleSet ==
    InCall =>
        /\ \A i \in DOMAIN pm.objs : Shown(pm, i) \/ Hidden(pm, i)
        /\ pm.pc \in {"attempt", "after"} =>
               Visible(pm) = Range(pm.successfully_placed) \cup {CurrentObject}
        /\ pm.pc \in {"object", "return"} =>
               Visible(pm) = Range(pm.successfully_placed)

(* The second object of the order is shown and about to be tried while
   the first one, shown before the call, has failed and is hidden. *)
C27_Witness ==
    /\ pm.pc = "attempt" /\ pm.pos = 2 /\ pm.tries[CurrentObject] = 0
    /\ pm.successfully_placed = <<>>
    /\ ~pm.entry[pm.object_indices[1]].hide_render
    /\ pm.tries[pm.object_indices[1]] = MaxAttempts
    /\ Visible(pm) = {CurrentObject}

====
